---- MODULE Spec2Model ----
(***************************************************************************)
(* Model of the analysis core of github-repo-analyzer:                     *)
(*   - RepositoryCache (backend/cache.py): TTL cache with eviction,        *)
(*   - timeout_decorator and OptimizedAnalyzer (backend/optimized_         *)
(*     analyzer.py): the timeout guard and its guarded work,               *)
(*   - RepoProcessor.analyze_repository (backend/repo_processor.py).       *)
(*                                                                         *)
(* Time is in seconds; the clock advances in steps of TickSeconds.         *)
(***************************************************************************)
EXTENDS Integers, Sequences, FiniteSets, TLC

\* ------------------------------------------------------------------ bounds
\* max_size the modelled cache is built with (RepositoryCache.__init__).
MaxSize == 2
\* The clock advances TickSeconds at a time, at most MaxTicks times.
TickSeconds == 450
MaxTicks == 2
\* Number of cache API calls explored in one behaviour.
MaxOps == 4
\* Blobs of the repository tree handed to the file-tree extractor.
MaxFiles == 4
\* Segments of a locator handed to parse_repo_url.
MaxSegments == 3
\* Issues, and pull requests, handed to the health score.
MaxItems == 10
\* Threads calling the cache at once, and the calls they make in all.
NumThreads == 2
MaxThreadOps == 2
\* guarded calls made
MaxGuardCalls == 2
\* analyze_repository requests made
MaxRequests == 2

\* default_ttl of the global cache instance, in seconds.
DefaultTtl == 900
\* OptimizedAnalyzer(cache_ttl=300)
CacheTtl == 300
\* cache_repository_analysis: ttl=1800
AnalysisTtl == 1800
\* detect_architecture_pattern: len([... "service" ...]) > 2
ServiceDirs == 2
\* detect_architecture_pattern: max_depth < 3 and total_dirs < 10
MonolithicDepth == 3
MonolithicDirs == 10
\* identify_tech_debt_indicators: the thresholds of its checks
DebtDepth == 6
DebtFiles == 500
DebtDeps == 50
DebtFlexible == 5
DebtTestRatio == 10
DebtDocCoverage == 5
\* analyze_commit_activity: prs[:20] and issues[:20]
PrWindow == 20
IssueWindow == 20
\* _calculate_health_score: base score, bonuses, ratio thresholds in tenths
\* (0.3 and 0.7), and the number of recent issues that has to be exceeded
BaseScore == 50
IssueBonus == 20
PrBonus == 15
ActivityBonus == 15
LowRatio == 3
HighRatio == 7
RecentIssues == 5

Keys == 1 .. (MaxSize + 1)
\* A stored value is tagged with the call that stored it: the cache never
\* looks inside a value.
Value(key, t) == [of |-> key, at |-> t]
None == [of |-> 0, at |-> 0]
\* ttl=None, the default of set's ttl parameter.
NoTtl == -1
\* ttl arguments: not passed, zero, and a positive ttl shorter than the default.
TtlArgs == {NoTtl, 0, TickSeconds}

\* ------------------------------------------------------------------ state
VARIABLES
    cache,          \* RepositoryCache._cache: key -> [value, expires_at, created_at]
    access_times,   \* RepositoryCache._access_times, in dict insertion order
    hits,           \* RepositoryCache.hits
    misses,         \* RepositoryCache.misses
    now,            \* time.time()
    last,           \* the last cache call and what it returned
    nops,           \* cache calls made so far
    nkeys,          \* keys 1 .. nkeys have been passed to the cache so far
    hist,           \* bookkeeping since construction or the last clear
    \* threads calling the cache concurrently
    lock,           \* RepositoryCache._lock: the holding thread, 0 when free
    tpc,            \* per thread: the statement of cache.py it is at
    top,            \* per thread: the call it is making
    tloc,           \* per thread: its local variables
    tret,           \* per thread: what its last call returned
    serial,         \* the cache as left by the calls run one at a time, in
                    \* the order they took the lock
    sret,           \* per thread: what its call returns in that serial run
    lnops,          \* calls started by the threads so far
    \* timeout_decorator around the methods of one OptimizedAnalyzer
    gn,             \* guarded calls made so far
    gpc,            \* per call: where the wrapper is
    wpc,            \* per call: where its worker thread is
    gfun,           \* per call: the guarded method
    garg,           \* per call: the commits argument
    gslot,          \* per call: result[0]
    gexc,           \* per call: exception[0] is set
    gret,           \* per call: what the wrapper returned
    gelapsed,       \* per call: join returned because the budget elapsed
    wval,           \* per call: what the method returned
    wraised,        \* per call: the method raised
    dcache,         \* OptimizedAnalyzer._cache and _cache_times, key dir_owner_repo
    \* RepoProcessor.analyze_repository
    rn,             \* requests made so far
    rpc,            \* where the current request is
    rloc,           \* repo_url
    rkey,           \* the cache key of (owner, repo)
    rdata,          \* what the provider calls returned
    rtree,          \* tree_analysis
    rcalls,         \* provider calls made by the current request
    rlook,          \* when the current request looked in the cache
    rexp,           \* when the cache entry of the returned report expires
    rret,           \* what the request returned or is about to
    prev,           \* the request before: its key, return and expiry
    \* the merge of the deep values into one section of the report
    mpc,            \* the assignment about to run, 0 before the first merge
    msec,           \* the section being merged
    mtree,          \* tree_analysis
    mdeps,          \* deep_deps
    mdict,          \* base: field -> value
    \* Python objects
    mutated,        \* the report objects (named by the request that built
                    \* them) their holder has changed since they were built
    \* the feature classifiers, called on their own
    fcall,          \* the last call: the function and its arguments
    fret,           \* what it returned
    \* analyze_repository called from several threads at once
    acall,          \* per thread: where its call is, its key, what it returns
    awrites         \* the threads that wrote the cache, in the order they did

cacheVars == <<cache, access_times, hits, misses>>
seqVars == <<last, nops, hist>>
lockVars == <<lock, tpc, top, tloc, tret, serial, sret, lnops>>
guardVars == <<gn, gpc, wpc, gfun, garg, gslot, gexc, gret, gelapsed, wval, wraised, dcache>>
analyzeVars == <<rn, rpc, rloc, rkey, rdata, rtree, rcalls, rlook, rexp, rret, prev>>
mergeVars == <<mpc, msec, mtree, mdeps, mdict>>
funVars == <<fcall, fret>>
raceVars == <<acall, awrites>>
moreVars == <<mergeVars, mutated, funVars, raceVars>>
restVars == <<guardVars, analyzeVars, moreVars>>
vars == <<cache, access_times, hits, misses, now, nkeys, seqVars, lockVars, restVars>>

\* ------------------------------------------------- dict helpers (ordered)
\* _access_times is a Python dict: a sequence of <<key, time>> pairs in
\* insertion order; assigning an existing key keeps its position.
ATKeys(at) == {at[i][1] : i \in 1 .. Len(at)}

ATGet(at, k) == LET i == CHOOSE j \in 1 .. Len(at) : at[j][1] = k IN at[i][2]

ATSet(at, k, t) ==
    IF k \in ATKeys(at)
    THEN [i \in 1 .. Len(at) |-> IF at[i][1] = k THEN <<k, t>> ELSE at[i]]
    ELSE Append(at, <<k, t>>)

ATDel(at, k) == SelectSeq(at, LAMBDA p : p[1] # k)

DictDel(d, k) == [x \in (DOMAIN d) \ {k} |-> d[x]]

DictSet(d, k, e) == [x \in (DOMAIN d) \cup {k} |-> IF x = k THEN e ELSE d[x]]

EmptyDict == <<>>

\* ------------------------------------------------------- RepositoryCache
CacheState(c, a, h, m) == [cache |-> c, access_times |-> a, hits |-> h, misses |-> m]

CacheInit == CacheState(EmptyDict, <<>>, 0, 0)

\* Mutant of OldestKey: the first key in dict order (first inserted), whatever
\* its access time.
OldestKeyFirstInserted(at) == at[1][1]

\* min(self._access_times, key=self._access_times.get): the first key, in
\* dict order, whose access time is minimal.
OldestKey(at) ==
    LET i == CHOOSE j \in 1 .. Len(at) :
                 /\ \A m \in 1 .. Len(at) : at[j][2] <= at[m][2]
                 /\ \A m \in 1 .. (j - 1) : at[m][2] > at[j][2]
    IN at[i][1]

EvictOldest(c) ==
    IF c.access_times = <<>>
    THEN c
    ELSE LET oldest_key == OldestKey(c.access_times)
         IN [c EXCEPT !.cache = DictDel(@, oldest_key),
                      !.access_times = ATDel(@, oldest_key)]

\* ttl or self.default_ttl: None and 0 are both falsy.
TtlOrDefault(ttl) == IF ttl = NoTtl \/ ttl = 0 THEN DefaultTtl ELSE ttl

\* Mutant of Expired: an entry is still served at its expiry time.
ExpiredLate(entry, t) == t > entry.expires_at

Expired(entry, t) == ~(t < entry.expires_at)

\* Mutant of CacheGet: the expired branch returns without counting the miss.
CacheGetExpiredUncounted(c, key, t) ==
    IF key \in DOMAIN c.cache
    THEN IF ~Expired(c.cache[key], t)
         THEN [st |-> [c EXCEPT !.hits = @ + 1,
                                !.access_times = ATSet(@, key, t)],
               ret |-> c.cache[key].value]
         ELSE [st |-> [c EXCEPT !.cache = DictDel(@, key),
                                !.access_times = ATDel(@, key)],
               ret |-> None]
    ELSE [st |-> [c EXCEPT !.misses = @ + 1], ret |-> None]

\* RepositoryCache.get: the new state and the returned value.
CacheGet(c, key, t) ==
    IF key \in DOMAIN c.cache
    THEN IF ~Expired(c.cache[key], t)
         THEN [st |-> [c EXCEPT !.hits = @ + 1,
                                !.access_times = ATSet(@, key, t)],
               ret |-> c.cache[key].value]
         ELSE [st |-> [c EXCEPT !.cache = DictDel(@, key),
                                !.access_times = ATDel(@, key),
                                !.misses = @ + 1],
               ret |-> None]
    ELSE [st |-> [c EXCEPT !.misses = @ + 1], ret |-> None]

\* Mutant of EvictIfFull: set never evicts.
EvictNever(c) == c

\* RepositoryCache.set.
\* The first statement of set: evict when the cache is full.
EvictIfFull(c) ==
    IF Cardinality(DOMAIN c.cache) >= MaxSize THEN EvictOldest(c) ELSE c

\* Mutant of CacheSet: a key that is already present is overwritten in place,
\* without the eviction.
CacheSetInPlace(c, key, value, ttl, t) ==
    LET c1 == IF key \in DOMAIN c.cache THEN c ELSE EvictIfFull(c)
        entry == [value |-> value, expires_at |-> t + TtlOrDefault(ttl), created_at |-> t]
    IN [c1 EXCEPT !.cache = DictSet(@, key, entry),
                  !.access_times = ATSet(@, key, t)]

CacheSet(c, key, value, ttl, t) ==
    LET c1 == EvictIfFull(c)
        entry == [value |-> value, expires_at |-> t + TtlOrDefault(ttl), created_at |-> t]
    IN [c1 EXCEPT !.cache = DictSet(@, key, entry),
                  !.access_times = ATSet(@, key, t)]

\* RepositoryCache.clear.
CacheClear(c) == CacheInit

\* RepositoryCache.get_stats (hit_rate left out: a formatted float).
CacheStats(c) ==
    [entries |-> Cardinality(DOMAIN c.cache), hits |-> c.hits, misses |-> c.misses,
     max_size |-> MaxSize, default_ttl |-> DefaultTtl]

Cur == CacheState(cache, access_times, hits, misses)

Install(c) ==
    /\ cache' = c.cache
    /\ access_times' = c.access_times
    /\ hits' = c.hits
    /\ misses' = c.misses

\* --------------------------------------------------- bookkeeping (ghost)
\* live[k]: when and with which ttl argument k was last set, while that entry
\*          has been neither evicted nor cleared (set = TRUE).
\* sets, nsets: the keys passed to set, and the number of set calls, since
\*          construction / clear.
\* gets, evictions, expiries: calls to get, entries evicted by set, and
\*          expired entries removed by get, since construction / clear.
\* evictedOldest: no entry present at an eviction had an older access time
\*          than the evicted one.
NotLive == [set |-> FALSE, at |-> 0, ttl |-> NoTtl]

HistInit ==
    [live |-> [k \in Keys |-> NotLive], sets |-> {}, nsets |-> 0, gets |-> 0,
     evictions |-> 0, expiries |-> 0, evictedOldest |-> TRUE]

NoLast ==
    [op |-> "none", key |-> 0, ret |-> None, time |-> 0, evicted |-> 0,
     expired |-> FALSE]

\* The key set's eviction removed (0 when it evicted nothing).
Evicted(c, c1) ==
    LET gone == ATKeys(c.access_times) \ ATKeys(c1.access_times)
    IN IF gone = {} THEN 0 ELSE CHOOSE k \in gone : TRUE

\* For a set (last.expired): the eviction removed an unexpired entry while an
\* expired one was present.
PassedOverExpired(victim) ==
    /\ victim # 0
    /\ ~Expired(cache[victim], now)
    /\ \E k \in DOMAIN cache : Expired(cache[k], now)

\* ------------------------------------------------------------ cache API
\* Keys are interchangeable, so callers take them in order: a call names a
\* key used before or the next unused one.
UseKey(key) ==
    /\ key <= nkeys + 1
    /\ nkeys' = IF key > nkeys THEN key ELSE nkeys

Get(key) ==
    /\ nops < MaxOps
    /\ UseKey(key)
    /\ LET r == CacheGet(Cur, key, now)
           wasExpired == key \in DOMAIN cache /\ key \notin DOMAIN r.st.cache
       IN /\ Install(r.st)
          /\ last' = [op |-> "get", key |-> key, ret |-> r.ret, time |-> now,
                      evicted |-> 0, expired |-> wasExpired]
          /\ hist' = [hist EXCEPT !.gets = @ + 1,
                                  !.expiries = IF wasExpired THEN @ + 1 ELSE @]
    /\ nops' = nops + 1
    /\ UNCHANGED <<now, lockVars, restVars>>

SetValue(key, value, ttl) ==
    /\ nops < MaxOps
    /\ UseKey(key)
    /\ LET victim == Evicted(Cur, EvictIfFull(Cur))
           c2 == CacheSet(Cur, key, value, ttl, now)
       IN /\ Install(c2)
          /\ last' = [op |-> "set", key |-> key, ret |-> None, time |-> now,
                      evicted |-> victim, expired |-> PassedOverExpired(victim)]
          /\ hist' = [hist EXCEPT
                        !.live = [k \in Keys |->
                                    IF k = key THEN [set |-> TRUE, at |-> now, ttl |-> ttl]
                                    ELSE IF k = victim THEN NotLive ELSE @[k]],
                        !.sets = @ \cup {key},
                        !.nsets = @ + 1,
                        !.evictions = IF victim # 0 THEN @ + 1 ELSE @,
                        !.evictedOldest =
                            @ /\ (victim # 0 =>
                                    \A k \in ATKeys(access_times) :
                                        ATGet(access_times, victim) <= ATGet(access_times, k))]
    /\ nops' = nops + 1
    /\ UNCHANGED <<now, lockVars, restVars>>

\* set(key, value, ttl) with a value of the caller's own
Set(key, ttl) == SetValue(key, Value(key, now), ttl)

\* set(key, None): value is typed Any
SetNone(key) == SetValue(key, None, NoTtl)

Clear ==
    /\ nops < MaxOps
    /\ Install(CacheClear(Cur))
    /\ last' = [NoLast EXCEPT !.op = "clear", !.time = now]
    /\ hist' = HistInit
    /\ nops' = nops + 1
    /\ UNCHANGED <<now, nkeys, lockVars, restVars>>

Tick ==
    /\ now < MaxTicks * TickSeconds
    /\ now' = now + TickSeconds
    /\ UNCHANGED <<cacheVars, nkeys, seqVars, restVars, lockVars>>

\* ------------------------------------------- threads under self._lock
\* Each public method runs "with self._lock:".  A thread goes through the
\* statements of the method one at a time; the pc names the line of cache.py
\* it is about to run.  hits += 1 and misses += 1 are a load and a store.
\* The clock does not advance while a thread is inside a method.
Threads == 1 .. NumThreads

NoCall == [op |-> "none", key |-> 0, ttl |-> NoTtl]
NoLocals == [n |-> 0, value |-> None, oldest |-> 0]
NoStats == [entries |-> 0, hits |-> 0, misses |-> 0, max_size |-> 0, default_ttl |-> 0]
NoRet == [value |-> None, stats |-> NoStats]

\* No thread has called the cache yet; c is the cache as it stands.
ThreadsStart(c) ==
    /\ lock = 0
    /\ tpc = [t \in Threads |-> "idle"]
    /\ top = [t \in Threads |-> NoCall]
    /\ tloc = [t \in Threads |-> NoLocals]
    /\ tret = [t \in Threads |-> NoRet]
    /\ serial = c
    /\ sret = [t \in Threads |-> NoRet]
    /\ lnops = 0

LockStart == ThreadsStart(CacheInit)

\* Mutant of LockFree: the lock never makes a caller wait.
LockFreeAlways(l) == TRUE

\* threading.Lock: acquire waits until no thread holds it.
LockFree(l) == l = 0

Goto(t, pc) == tpc' = [tpc EXCEPT ![t] = pc]

InMethod(t) == tpc[t] \notin {"idle", "wait"}

\* A thread calls get, set, clear or get_stats.  Idle threads are
\* interchangeable: the lowest idle one makes the next call.
Call(t, call) ==
    /\ tpc[t] = "idle"
    /\ \A u \in Threads : u < t => tpc[u] # "idle"
    /\ lnops < MaxThreadOps
    /\ lnops' = lnops + 1
    /\ top' = [top EXCEPT ![t] = call]
    /\ Goto(t, "wait")
    /\ UNCHANGED <<cacheVars, now, seqVars, restVars, lock, tloc, tret, serial, sret>>

CallGet(t, key) ==
    /\ UseKey(key)
    /\ Call(t, [op |-> "get", key |-> key, ttl |-> NoTtl])

CallSet(t, key, ttl) ==
    /\ UseKey(key)
    /\ Call(t, [op |-> "set", key |-> key, ttl |-> ttl])

CallClear(t) ==
    /\ Call(t, [NoCall EXCEPT !.op = "clear"])
    /\ UNCHANGED nkeys

CallStats(t) ==
    /\ Call(t, [NoCall EXCEPT !.op = "stats"])
    /\ UNCHANGED nkeys

\* What the call returns, and the cache it leaves, when run alone.
SerialRun(c, call, t) ==
    CASE call.op = "get" ->
           LET r == CacheGet(c, call.key, t)
           IN [st |-> r.st, ret |-> [NoRet EXCEPT !.value = r.ret]]
      [] call.op = "set" ->
           [st |-> CacheSet(c, call.key, Value(call.key, t), call.ttl, t), ret |-> NoRet]
      [] call.op = "clear" -> [st |-> CacheClear(c), ret |-> NoRet]
      [] OTHER -> [st |-> c, ret |-> [NoRet EXCEPT !.stats = CacheStats(c)]]

\* with self._lock: (lines 43, 60, 84, 92)
Acquire(t) ==
    /\ tpc[t] = "wait"
    /\ LockFree(lock)
    /\ lock' = t
    /\ Goto(t, CASE top[t].op = "get" -> "get44"
                 [] top[t].op = "set" -> "set62"
                 [] top[t].op = "clear" -> "clear85"
                 [] OTHER -> "stats93")
    /\ LET r == SerialRun(serial, top[t], now)
       IN /\ serial' = r.st
          /\ sret' = [sret EXCEPT ![t] = r.ret]
    /\ UNCHANGED <<cacheVars, now, nkeys, seqVars, restVars, top, tloc, tret, lnops>>

\* A statement of a method: the thread is at pc, runs it and moves on.
At(t, pc) == tpc[t] = pc

Frame == UNCHANGED <<now, nkeys, seqVars, restVars, lock, top, serial, sret, lnops>>

\* lines 44-46: if key in self._cache: entry = ...; if time.time() < expires_at
Get44(t) ==
    /\ At(t, "get44")
    /\ LET key == top[t].key
       IN IF key \in DOMAIN cache
          THEN IF ~Expired(cache[key], now)
               THEN /\ tloc' = [tloc EXCEPT ![t].value = cache[key].value]
                    /\ Goto(t, "get47")
               ELSE /\ Goto(t, "get52")
                    /\ UNCHANGED tloc
          ELSE /\ Goto(t, "get55")
               /\ UNCHANGED tloc
    /\ UNCHANGED <<cacheVars, tret>>
    /\ Frame

\* line 47: self.hits += 1 (load)
Get47Load(t) ==
    /\ At(t, "get47")
    /\ tloc' = [tloc EXCEPT ![t].n = hits]
    /\ Goto(t, "get47s")
    /\ UNCHANGED <<cacheVars, tret>>
    /\ Frame

\* line 47: self.hits += 1 (store)
Get47Store(t) ==
    /\ At(t, "get47s")
    /\ hits' = tloc[t].n + 1
    /\ Goto(t, "get48")
    /\ UNCHANGED <<cache, access_times, misses, tloc, tret>>
    /\ Frame

\* line 48: self._access_times[key] = time.time()
Get48(t) ==
    /\ At(t, "get48")
    /\ access_times' = ATSet(access_times, top[t].key, now)
    /\ Goto(t, "get49")
    /\ UNCHANGED <<cache, hits, misses, tloc, tret>>
    /\ Frame

\* line 49: return entry['value']
Get49(t) ==
    /\ At(t, "get49")
    /\ tret' = [tret EXCEPT ![t] = [NoRet EXCEPT !.value = tloc[t].value]]
    /\ Goto(t, "release")
    /\ UNCHANGED <<cacheVars, tloc>>
    /\ Frame

\* line 52: del self._cache[key]
Get52(t) ==
    /\ At(t, "get52")
    /\ cache' = DictDel(cache, top[t].key)
    /\ Goto(t, "get53")
    /\ UNCHANGED <<access_times, hits, misses, tloc, tret>>
    /\ Frame

\* line 53: del self._access_times[key]
Get53(t) ==
    /\ At(t, "get53")
    /\ access_times' = ATDel(access_times, top[t].key)
    /\ Goto(t, "get55")
    /\ UNCHANGED <<cache, hits, misses, tloc, tret>>
    /\ Frame

\* line 55: self.misses += 1 (load)
Get55Load(t) ==
    /\ At(t, "get55")
    /\ tloc' = [tloc EXCEPT ![t].n = misses]
    /\ Goto(t, "get55s")
    /\ UNCHANGED <<cacheVars, tret>>
    /\ Frame

\* line 55: self.misses += 1 (store)
Get55Store(t) ==
    /\ At(t, "get55s")
    /\ misses' = tloc[t].n + 1
    /\ Goto(t, "get56")
    /\ UNCHANGED <<cache, access_times, hits, tloc, tret>>
    /\ Frame

\* line 56: return None
Get56(t) ==
    /\ At(t, "get56")
    /\ tret' = [tret EXCEPT ![t] = NoRet]
    /\ Goto(t, "release")
    /\ UNCHANGED <<cacheVars, tloc>>
    /\ Frame

\* lines 62-63 and 75-78: if len(self._cache) >= self.max_size: _evict_oldest(),
\* which returns at once on an empty _access_times and else picks oldest_key.
Set62(t) ==
    /\ At(t, "set62")
    /\ IF Cardinality(DOMAIN cache) >= MaxSize /\ access_times # <<>>
       THEN /\ tloc' = [tloc EXCEPT ![t].oldest = OldestKey(access_times)]
            /\ Goto(t, "set79")
       ELSE /\ Goto(t, "set65")
            /\ UNCHANGED tloc
    /\ UNCHANGED <<cacheVars, tret>>
    /\ Frame

\* line 79: del self._cache[oldest_key]
Set79(t) ==
    /\ At(t, "set79")
    /\ cache' = DictDel(cache, tloc[t].oldest)
    /\ Goto(t, "set80")
    /\ UNCHANGED <<access_times, hits, misses, tloc, tret>>
    /\ Frame

\* line 80: del self._access_times[oldest_key]
Set80(t) ==
    /\ At(t, "set80")
    /\ access_times' = ATDel(access_times, tloc[t].oldest)
    /\ Goto(t, "set65")
    /\ UNCHANGED <<cache, hits, misses, tloc, tret>>
    /\ Frame

\* lines 65-70: expires_at = ...; self._cache[key] = {...}
Set65(t) ==
    /\ At(t, "set65")
    /\ cache' = DictSet(cache, top[t].key,
                        [value |-> Value(top[t].key, now),
                         expires_at |-> now + TtlOrDefault(top[t].ttl),
                         created_at |-> now])
    /\ Goto(t, "set71")
    /\ UNCHANGED <<access_times, hits, misses, tloc, tret>>
    /\ Frame

\* line 71: self._access_times[key] = time.time()
Set71(t) ==
    /\ At(t, "set71")
    /\ access_times' = ATSet(access_times, top[t].key, now)
    /\ tret' = [tret EXCEPT ![t] = NoRet]
    /\ Goto(t, "release")
    /\ UNCHANGED <<cache, hits, misses, tloc>>
    /\ Frame

\* line 85: self._cache.clear()
Clear85(t) ==
    /\ At(t, "clear85")
    /\ cache' = EmptyDict
    /\ Goto(t, "clear86")
    /\ UNCHANGED <<access_times, hits, misses, tloc, tret>>
    /\ Frame

\* line 86: self._access_times.clear()
Clear86(t) ==
    /\ At(t, "clear86")
    /\ access_times' = <<>>
    /\ Goto(t, "clear87")
    /\ UNCHANGED <<cache, hits, misses, tloc, tret>>
    /\ Frame

\* line 87: self.hits = 0
Clear87(t) ==
    /\ At(t, "clear87")
    /\ hits' = 0
    /\ Goto(t, "clear88")
    /\ UNCHANGED <<cache, access_times, misses, tloc, tret>>
    /\ Frame

\* line 88: self.misses = 0
Clear88(t) ==
    /\ At(t, "clear88")
    /\ misses' = 0
    /\ tret' = [tret EXCEPT ![t] = NoRet]
    /\ Goto(t, "release")
    /\ UNCHANGED <<cache, access_times, hits, tloc>>
    /\ Frame

\* lines 93-103: get_stats
Stats93(t) ==
    /\ At(t, "stats93")
    /\ tret' = [tret EXCEPT ![t] = [NoRet EXCEPT !.stats = CacheStats(Cur)]]
    /\ Goto(t, "release")
    /\ UNCHANGED <<cacheVars, tloc>>
    /\ Frame

\* Leaving the with block releases the lock; the call is over and its locals
\* and return value are gone.
Release(t) ==
    /\ At(t, "release")
    /\ lock' = 0
    /\ Goto(t, "idle")
    /\ top' = [top EXCEPT ![t] = NoCall]
    /\ tloc' = [tloc EXCEPT ![t] = NoLocals]
    /\ tret' = [tret EXCEPT ![t] = NoRet]
    /\ sret' = [sret EXCEPT ![t] = NoRet]
    /\ UNCHANGED <<cacheVars, now, nkeys, seqVars, restVars, serial, lnops>>

\* The clock advances between calls.
LockTick ==
    /\ \A t \in Threads : tpc[t] = "idle"
    /\ now < MaxTicks * TickSeconds
    /\ now' = now + TickSeconds
    /\ UNCHANGED <<cacheVars, nkeys, seqVars, restVars, lockVars>>

LockNext ==
    \/ \E t \in Threads :
          \/ \E k \in Keys : CallGet(t, k)
          \/ \E k \in Keys, ttl \in {NoTtl, TickSeconds} : CallSet(t, k, ttl)
          \/ CallClear(t)
          \/ CallStats(t)
          \/ Acquire(t)
          \/ Get44(t) \/ Get47Load(t) \/ Get47Store(t) \/ Get48(t) \/ Get49(t)
          \/ Get52(t) \/ Get53(t) \/ Get55Load(t) \/ Get55Store(t) \/ Get56(t)
          \/ Set62(t) \/ Set79(t) \/ Set80(t) \/ Set65(t) \/ Set71(t)
          \/ Clear85(t) \/ Clear86(t) \/ Clear87(t) \/ Clear88(t)
          \/ Stats93(t)
          \/ Release(t)
    \/ LockTick

\* ------------------------------------------------- the timeout guard
\* timeout_decorator (optimized_analyzer.py) around two methods of the one
\* OptimizedAnalyzer: analyze_directory_structure, which caches its result
\* in self._cache, and analyze_commit_patterns_quick.  The caller makes its
\* guarded calls one after another; the worker thread of a call that timed
\* out keeps running.  Work takes as long as the network lets it, so the
\* budget may elapse at any moment while the worker is alive.
GuardCalls == 1 .. MaxGuardCalls

Result(kind, i, partial) == [kind |-> kind, by |-> i, partial |-> partial]

\* result = [None]
PyNone == Result("None", 0, FALSE)
\* {"error": f"Analysis timeout after {seconds} seconds", "partial": True}
TimeoutMarker == Result("timeout", 0, TRUE)
\* {"error": str(exception[0]), "partial": True}
ErrorMarker == Result("error", 0, TRUE)
\* the result dict built from the tree fetched by the worker of call i
DirResult(i) == Result("structure", i, FALSE)
\* {"structure": "Unable to analyze", "patterns": []}
DirUnable == Result("unable", 0, FALSE)
\* {"structure": f"Analysis failed: ...", ..., "partial": True}
DirFailed == Result("failed", 0, TRUE)
\* {"patterns": "No commits to analyze"}
NoCommits == Result("no_commits", 0, FALSE)
\* the patterns dict built by the worker of call i
Patterns(i) == Result("patterns", i, FALSE)

GuardedMethods == {"analyze_directory_structure", "analyze_commit_patterns_quick"}
\* commits as get_commits hands them over: [], a list, or the degraded marker
CommitArgs == {"empty", "list", "marker"}
\* what _make_request gives for the tree: a tree, nothing usable, or an error
TreeOutcomes == {"tree", "notree", "raise"}

NoDirCache == [has |-> FALSE, value |-> PyNone, time |-> 0]

GuardStart ==
    /\ gn = 0
    /\ gpc = [i \in GuardCalls |-> "idle"]
    /\ wpc = [i \in GuardCalls |-> "none"]
    /\ gfun = [i \in GuardCalls |-> "none"]
    /\ garg = [i \in GuardCalls |-> "none"]
    /\ gslot = [i \in GuardCalls |-> PyNone]
    /\ gexc = [i \in GuardCalls |-> FALSE]
    /\ gret = [i \in GuardCalls |-> PyNone]
    /\ gelapsed = [i \in GuardCalls |-> FALSE]
    /\ wval = [i \in GuardCalls |-> PyNone]
    /\ wraised = [i \in GuardCalls |-> FALSE]
    /\ dcache = NoDirCache

GuardFrame == UNCHANGED <<cacheVars, now, nkeys, seqVars, lockVars, analyzeVars, moreVars>>

\* _get_cached: the cached value if younger than cache_ttl, else None
GetCached(d, t) ==
    IF d.has /\ t - d.time < CacheTtl THEN d.value ELSE PyNone

\* _set_cache
SetCache(value, t) == [has |-> TRUE, value |-> value, time |-> t]

\* wrapper, lines 23-35: the slots are made, the thread is started and the
\* caller waits in join(seconds).
GuardCall(i, f, arg) ==
    /\ gn = i - 1
    /\ i > 1 => gpc[i - 1] = "done"
    /\ gn' = i
    /\ gfun' = [gfun EXCEPT ![i] = f]
    /\ garg' = [garg EXCEPT ![i] = arg]
    /\ gslot' = [gslot EXCEPT ![i] = PyNone]
    /\ gexc' = [gexc EXCEPT ![i] = FALSE]
    /\ gpc' = [gpc EXCEPT ![i] = "join"]
    /\ wpc' = [wpc EXCEPT ![i] =
                  IF f = "analyze_directory_structure" THEN "dir74" ELSE "cp223"]
    /\ UNCHANGED <<gret, gelapsed, wval, wraised, dcache>>
    /\ GuardFrame

CallDirectoryStructure(i) ==
    GuardCall(i, "analyze_directory_structure", "none")

CallCommitPatterns(i, commits) ==
    GuardCall(i, "analyze_commit_patterns_quick", commits)

WorkerFrame ==
    /\ UNCHANGED <<gn, gpc, gfun, garg, gret, gelapsed>>
    /\ GuardFrame

\* lines 74-76: cached = self._get_cached(cache_key); if cached: return cached
Dir74(i) ==
    /\ wpc[i] = "dir74"
    /\ LET cached == GetCached(dcache, now)
       IN IF cached # PyNone
          THEN /\ wval' = [wval EXCEPT ![i] = cached]
               /\ wpc' = [wpc EXCEPT ![i] = "return"]
          ELSE /\ wpc' = [wpc EXCEPT ![i] = "dir81"]
               /\ UNCHANGED wval
    /\ UNCHANGED <<gslot, gexc, wraised, dcache>>
    /\ WorkerFrame

\* lines 78-108 and 113-119: the tree is fetched and the result is built
Dir81(i, outcome) ==
    /\ wpc[i] = "dir81"
    /\ CASE outcome = "tree" ->
              /\ wval' = [wval EXCEPT ![i] = DirResult(i)]
              /\ wpc' = [wpc EXCEPT ![i] = "dir110"]
         [] outcome = "notree" ->
              /\ wval' = [wval EXCEPT ![i] = DirUnable]
              /\ wpc' = [wpc EXCEPT ![i] = "return"]
         [] OTHER ->
              /\ wval' = [wval EXCEPT ![i] = DirFailed]
              /\ wpc' = [wpc EXCEPT ![i] = "return"]
    /\ UNCHANGED <<gslot, gexc, wraised, dcache>>
    /\ WorkerFrame

\* line 110: self._set_cache(cache_key, result)
Dir110(i) ==
    /\ wpc[i] = "dir110"
    /\ dcache' = SetCache(wval[i], now)
    /\ wpc' = [wpc EXCEPT ![i] = "return"]
    /\ UNCHANGED <<gslot, gexc, wval, wraised>>
    /\ WorkerFrame

\* lines 223-264: commits[:30] is outside the try and raises on the marker
Cp223(i) ==
    /\ wpc[i] = "cp223"
    /\ CASE garg[i] = "empty" ->
              /\ wval' = [wval EXCEPT ![i] = NoCommits]
              /\ wpc' = [wpc EXCEPT ![i] = "return"]
              /\ UNCHANGED wraised
         [] garg[i] = "list" ->
              /\ wval' = [wval EXCEPT ![i] = Patterns(i)]
              /\ wpc' = [wpc EXCEPT ![i] = "return"]
              /\ UNCHANGED wraised
         [] OTHER ->
              /\ wraised' = [wraised EXCEPT ![i] = TRUE]
              /\ wpc' = [wpc EXCEPT ![i] = "raise"]
              /\ UNCHANGED wval
    /\ UNCHANGED <<gslot, gexc, dcache>>
    /\ WorkerFrame

\* target, line 28: result[0] = func(*args, **kwargs)
TargetReturn(i) ==
    /\ wpc[i] = "return"
    /\ gslot' = [gslot EXCEPT ![i] = wval[i]]
    /\ wpc' = [wpc EXCEPT ![i] = "exit"]
    /\ UNCHANGED <<gexc, wval, wraised, dcache>>
    /\ WorkerFrame

\* target, lines 29-30: except Exception as e: exception[0] = e
TargetExcept(i) ==
    /\ wpc[i] = "raise"
    /\ gexc' = [gexc EXCEPT ![i] = TRUE]
    /\ wpc' = [wpc EXCEPT ![i] = "exit"]
    /\ UNCHANGED <<gslot, wval, wraised, dcache>>
    /\ WorkerFrame

\* target has returned: the thread is no longer alive
TargetExit(i) ==
    /\ wpc[i] = "exit"
    /\ wpc' = [wpc EXCEPT ![i] = "dead"]
    /\ UNCHANGED <<gslot, gexc, wval, wraised, dcache>>
    /\ WorkerFrame

IsAlive(i) == wpc[i] # "dead"

WrapperFrame ==
    /\ UNCHANGED <<gn, wpc, gfun, garg, gslot, gexc, wval, wraised, dcache>>
    /\ GuardFrame

\* line 35: thread.join(seconds) returns because the thread has finished
JoinFinished(i) ==
    /\ gpc[i] = "join"
    /\ ~IsAlive(i)
    /\ gpc' = [gpc EXCEPT ![i] = "check"]
    /\ gelapsed' = [gelapsed EXCEPT ![i] = FALSE]
    /\ UNCHANGED gret
    /\ WrapperFrame

\* line 35: thread.join(seconds) returns because the budget has elapsed
JoinTimeout(i) ==
    /\ gpc[i] = "join"
    /\ IsAlive(i)
    /\ gpc' = [gpc EXCEPT ![i] = "check"]
    /\ gelapsed' = [gelapsed EXCEPT ![i] = TRUE]
    /\ UNCHANGED gret
    /\ WrapperFrame

\* Mutant of GuardResult: the exception slot is not looked at.
GuardResultSlotOnly(alive, exc, slot) ==
    IF alive THEN TimeoutMarker ELSE slot

\* Mutant of GuardResult: the liveness of the thread is not looked at.
GuardResultNoLiveness(alive, exc, slot) ==
    IF exc THEN ErrorMarker ELSE slot

\* lines 37-44
GuardResult(alive, exc, slot) ==
    IF alive THEN TimeoutMarker
    ELSE IF exc THEN ErrorMarker
    ELSE slot

GuardReturn(i) ==
    /\ gpc[i] = "check"
    /\ gret' = [gret EXCEPT ![i] = GuardResult(IsAlive(i), gexc[i], gslot[i])]
    /\ gpc' = [gpc EXCEPT ![i] = "done"]
    /\ UNCHANGED gelapsed
    /\ WrapperFrame

\* The clock advances between guarded calls: its step is longer than any
\* budget.
GuardTick ==
    /\ \A i \in GuardCalls : gpc[i] \in {"idle", "done"}
    /\ now < MaxTicks * TickSeconds
    /\ now' = now + TickSeconds
    /\ UNCHANGED <<cacheVars, nkeys, seqVars, lockVars, restVars>>

GuardNext ==
    \/ \E i \in GuardCalls :
          \/ CallDirectoryStructure(i)
          \/ \E commits \in CommitArgs : CallCommitPatterns(i, commits)
          \/ Dir74(i)
          \/ \E outcome \in TreeOutcomes : Dir81(i, outcome)
          \/ Dir110(i)
          \/ Cp223(i)
          \/ TargetReturn(i) \/ TargetExcept(i) \/ TargetExit(i)
          \/ JoinFinished(i) \/ JoinTimeout(i)
          \/ GuardReturn(i)
    \/ GuardTick

\* ------------------------------------------- RepoProcessor.analyze_repository
\* Requests are made one after another.  A locator is the text of repo_url
\* cut at its slashes: whether it starts with "http", and the segments of
\* its path (of the whole text when it does not start with "http").
Owners == {"o"}
Repos == {"r1", "r2"}
PathForms ==
    {<<o>> : o \in Owners}
    \cup {<<o, r>> : o \in Owners, r \in Repos}
    \cup {<<o, r, "tree">> : o \in Owners, r \in Repos}
Locators == [http : BOOLEAN, parts : PathForms]

RECURSIVE StripLeft(_)
StripLeft(parts) ==
    IF parts # <<>> /\ Head(parts) = "" THEN StripLeft(Tail(parts)) ELSE parts

RECURSIVE StripRight(_)
StripRight(parts) ==
    IF parts # <<>> /\ parts[Len(parts)] = ""
    THEN StripRight(SubSeq(parts, 1, Len(parts) - 1))
    ELSE parts

\* parsed.path.strip("/").split("/"), on the segments of the path: the empty
\* segments at both ends go, and the empty string splits into one segment.
StripSplit(parts) ==
    LET stripped == StripRight(StripLeft(parts))
    IN IF stripped = <<>> THEN <<"">> ELSE stripped

\* GitHubAnalyzer.parse_repo_url
ParseRepoUrl(loc) ==
    IF loc.http
    THEN LET path_parts == StripSplit(loc.parts)
         IN IF Len(path_parts) >= 2
            THEN [ok |-> TRUE, owner |-> path_parts[1], repo |-> path_parts[2]]
            ELSE [ok |-> FALSE, owner |-> "", repo |-> ""]
    ELSE IF Len(loc.parts) = 2
         THEN [ok |-> TRUE, owner |-> loc.parts[1], repo |-> loc.parts[2]]
         ELSE [ok |-> FALSE, owner |-> "", repo |-> ""]

\* cache_key = f"analysis:{owner}/{repo}"
AnalysisKey(owner, repo) == <<"analysis", owner, repo>>

\* What a provider call hands back: the degraded marker
\* {"error": .., "partial": True}, an empty answer, or data.
Outcomes == {"degraded", "empty", "data"}
\* The answers whose shape the processors depend on.  get_repository_info,
\* get_readme, get_package_json, get_requirements_txt and get_workflow_runs
\* turn the marker into a default themselves; len(contributors) takes it.
ProviderData ==
    [commits : Outcomes, issues : Outcomes, pull_requests : Outcomes,
     releases : Outcomes, languages : Outcomes]
NoData ==
    [commits |-> "none", issues |-> "none", pull_requests |-> "none",
     releases |-> "none", languages |-> "none"]
\* tree_analysis["file_types"] is empty or not
TreeForms == {"empty", "files"}

Sections ==
    {"repository_metadata", "architecture_synopsis", "code_quality_metrics",
     "documentation_extraction", "development_activity",
     "technical_debt_assessment", "raw_data", "enhanced_insights"}

\* _process_activity_deep: the keys of development_activity
ActivityKeys(commits) ==
    {"recent_commit_patterns", "commit_frequency_per_day", "release_cadence",
     "open_issues_count", "open_pull_requests", "pull_request_velocity",
     "contributor_activity", "breaking_changes", "latest_release",
     "issue_resolution_time", "commit_message_quality"}
    \cup (IF commits = "data"
          THEN {"peak_development_hours", "peak_development_days", "top_contributors"}
          ELSE {})

\* _process_architecture_deep: the keys of architecture_synopsis
ArchitectureKeys(tree) ==
    {"entry_points", "directory_structure", "core_dependencies",
     "dev_dependencies", "build_system", "deployment_pipeline",
     "architecture_pattern", "data_flow_analysis", "scalability_assessment",
     "performance_considerations"}
    \cup (IF tree = "files" THEN {"primary_technologies"} ELSE {})

\* The analysis dict built by request i.
Report(i, commits, tree) ==
    [kind |-> "report", by |-> i, sections |-> Sections,
     activity |-> ActivityKeys(commits), architecture |-> ArchitectureKeys(tree)]
NoReport ==
    [kind |-> "none", by |-> 0, sections |-> {}, activity |-> {}, architecture |-> {}]
\* raise Exception(f"Repository analysis failed: {str(e)}")
Raised == [NoReport EXCEPT !.kind = "raised"]

\* Mutant of Truthy: a cached analysis is never used.
TruthyNever(v) == FALSE

\* if cached_analysis: None is falsy, a report is a non-empty dict
Truthy(v) == v # None /\ v.kind = "report"

\* analyze_commit_activity slices commits, prs and issues: the marker is a
\* dict and cannot be sliced.
DeepRaises(d) ==
    \/ d.commits = "degraded"
    \/ d.pull_requests = "degraded"
    \/ d.issues = "degraded"

\* _process_metadata sums languages.values(); _process_activity takes
\* releases[0] of a truthy releases.
AssembleRaises(d) ==
    \/ d.languages = "degraded"
    \/ d.releases = "degraded"

NoPrev == [key |-> <<>>, ret |-> NoReport, expires |-> 0]

AnalyzeStart ==
    /\ rn = 0
    /\ rpc = "idle"
    /\ rloc = [http |-> FALSE, parts |-> <<>>]
    /\ rkey = <<>>
    /\ rdata = NoData
    /\ rtree = "none"
    /\ rcalls = 0
    /\ rlook = 0
    /\ rexp = 0
    /\ rret = NoReport
    /\ prev = NoPrev

AnalyzeFrame == UNCHANGED <<nkeys, seqVars, lockVars, guardVars, moreVars>>

\* except Exception as e: raise Exception(...) (lines 92-93)
Raise ==
    /\ rret' = Raised
    /\ rpc' = "done"
    /\ rdata' = NoData
    /\ rtree' = "none"

\* Mutant of AnalyzeCall: the cache is asked before the locator is parsed.
AnalyzeCallLookupFirst(loc) ==
    /\ rpc \in {"idle", "done"}
    /\ rn < MaxRequests
    /\ rn' = rn + 1
    /\ prev' = IF rn = 0 THEN NoPrev
               ELSE [key |-> rkey, ret |-> rret, expires |-> rexp]
    /\ rloc' = loc
    /\ rcalls' = 0
    /\ rlook' = 0
    /\ rexp' = 0
    /\ LET p == ParseRepoUrl(loc)
       IN IF p.ok
          THEN /\ rkey' = AnalysisKey(p.owner, p.repo)
               /\ rpc' = "lookup"
               /\ rret' = NoReport
               /\ UNCHANGED <<rdata, rtree, cacheVars>>
          ELSE /\ rkey' = <<>>
               /\ Install(CacheGet(Cur, <<"analysis", loc>>, now).st)
               /\ Raise
    /\ UNCHANGED now
    /\ AnalyzeFrame

\* analyze_repository(repo_url), line 26: parse_repo_url
AnalyzeCall(loc) ==
    /\ rpc \in {"idle", "done"}
    /\ rn < MaxRequests
    /\ rn' = rn + 1
    /\ prev' = IF rn = 0 THEN NoPrev
               ELSE [key |-> rkey, ret |-> rret, expires |-> rexp]
    /\ rloc' = loc
    /\ rcalls' = 0
    /\ rlook' = 0
    /\ rexp' = 0
    /\ LET p == ParseRepoUrl(loc)
       IN IF p.ok
          THEN /\ rkey' = AnalysisKey(p.owner, p.repo)
               /\ rpc' = "lookup"
               /\ rret' = NoReport
               /\ UNCHANGED <<rdata, rtree>>
          ELSE /\ rkey' = <<>>
               /\ Raise
    /\ UNCHANGED <<cacheVars, now>>
    /\ AnalyzeFrame

\* lines 29-33: cached_analysis = get_cached_analysis(owner, repo)
Lookup ==
    /\ rpc = "lookup"
    /\ LET r == CacheGet(Cur, rkey, now)
       IN /\ Install(r.st)
          /\ rlook' = now
          /\ IF Truthy(r.ret)
             THEN /\ rret' = r.ret
                  /\ rexp' = cache[rkey].expires_at
                  /\ rpc' = "done"
             ELSE /\ rpc' = "fetch"
                  /\ UNCHANGED <<rret, rexp>>
    /\ UNCHANGED <<now, rn, rloc, rkey, rdata, rtree, rcalls, prev>>
    /\ AnalyzeFrame

\* Mutant of Fetch: the report is assembled straight after the raw fetch.
FetchThenAssemble(d) ==
    /\ rpc = "fetch"
    /\ rdata' = d
    /\ rcalls' = rcalls + 11
    /\ rpc' = "assemble"
    /\ UNCHANGED <<cacheVars, now, rn, rloc, rkey, rtree, rlook, rexp, rret, prev>>
    /\ AnalyzeFrame

\* lines 39-49: the eleven provider calls
Fetch(d) ==
    /\ rpc = "fetch"
    /\ rdata' = d
    /\ rcalls' = rcalls + 11
    /\ rpc' = "deep"
    /\ UNCHANGED <<cacheVars, now, rn, rloc, rkey, rtree, rlook, rexp, rret, prev>>
    /\ AnalyzeFrame

\* lines 52-64: get_quick_insights (always a non-empty dict) and the deep
\* analyses, three of which call the provider
Deep(tree) ==
    /\ rpc = "deep"
    /\ rcalls' = rcalls + 4
    /\ IF DeepRaises(rdata)
       THEN Raise
       ELSE /\ rtree' = tree
            /\ rpc' = "assemble"
            /\ UNCHANGED <<rdata, rret>>
    /\ UNCHANGED <<cacheVars, now, rn, rloc, rkey, rlook, rexp, prev>>
    /\ AnalyzeFrame

\* Mutant of Assemble: the analysis is cached before its sections are built.
AssembleCachedFirst ==
    /\ rpc = "assemble"
    /\ Install(CacheSet(Cur, rkey, Report(rn, rdata.commits, rtree), AnalysisTtl, now))
    /\ IF AssembleRaises(rdata)
       THEN Raise
       ELSE /\ rret' = Report(rn, rdata.commits, rtree)
            /\ rpc' = "store"
            /\ UNCHANGED <<rdata, rtree>>
    /\ UNCHANGED <<now, rn, rloc, rkey, rcalls, rlook, rexp, prev>>
    /\ AnalyzeFrame

\* lines 67-84: the analysis dict
Assemble ==
    /\ rpc = "assemble"
    /\ IF AssembleRaises(rdata)
       THEN Raise
       ELSE /\ rret' = Report(rn, rdata.commits, rtree)
            /\ rpc' = "store"
            /\ UNCHANGED <<rdata, rtree>>
    /\ UNCHANGED <<cacheVars, now, rn, rloc, rkey, rcalls, rlook, rexp, prev>>
    /\ AnalyzeFrame

\* lines 87-90: cache_repository_analysis(owner, repo, analysis); return
Store ==
    /\ rpc = "store"
    /\ Install(CacheSet(Cur, rkey, rret, AnalysisTtl, now))
    /\ rexp' = now + AnalysisTtl
    /\ rpc' = "done"
    /\ rdata' = NoData
    /\ rtree' = "none"
    /\ UNCHANGED <<now, rn, rloc, rkey, rcalls, rlook, rret, prev>>
    /\ AnalyzeFrame

\* The clock advances between requests (a request takes less than a step of
\* the clock); the analysis ttl is twice default_ttl, so it advances two
\* steps at once.
AnalyzeTick ==
    /\ rpc \in {"idle", "done"}
    /\ now < 2 * MaxTicks * TickSeconds
    /\ now' = now + 2 * TickSeconds
    /\ UNCHANGED <<cacheVars, nkeys, seqVars, lockVars, restVars>>

\* RepositoryCache.set stores the object it is given and get returns the
\* stored object: the cache entry, the analysis dict returned by the request
\* that built it (line 90) and the dict returned by every later hit (line 33)
\* are one object.  Its holder changes it, e.g. analysis["x"] = 1.
CallerMutates ==
    /\ rpc = "done"
    /\ rret.kind = "report"
    /\ rret.by \notin mutated
    /\ mutated' = mutated \cup {rret.by}
    /\ UNCHANGED <<cacheVars, now, nkeys, seqVars, lockVars, guardVars, analyzeVars, mergeVars, funVars, raceVars>>

AnalyzeNext ==
    \/ \E loc \in Locators : AnalyzeCall(loc)
    \/ Lookup
    \/ \E d \in ProviderData : Fetch(d)
    \/ \E tree \in TreeForms : Deep(tree)
    \/ Assemble
    \/ Store
    \/ AnalyzeTick

\* ------------------------------- analyze_repository from several threads
\* One RepoProcessor and the one repository_cache are shared; each thread
\* makes one call.  RepositoryCache.get and set run under the cache lock, so
\* the lookup and the write of a call are one step each; nothing is held
\* between them.  Report(t, ..) is the analysis dict built by thread t.
RaceLocators == {[http |-> FALSE, parts |-> <<o, r>>] : o \in Owners, r \in Repos}

\* Provider answers that let the pipeline through, or make the deep stage
\* or the assembly raise.
RaceData ==
    {d \in ProviderData :
        /\ d.issues = "data" /\ d.pull_requests = "data" /\ d.releases = "data"
        /\ d.commits \in {"data", "degraded"}
        /\ d.languages \in {"data", "degraded"}}

\* seen: the number of cache writes made before the call looked in the cache
\* missed: the lookup returned nothing usable
NoRace ==
    [pc |-> "idle", key |-> <<>>, data |-> NoData, tree |-> "none", calls |-> 0,
     seen |-> 0, missed |-> FALSE, ret |-> NoReport]

RaceStart ==
    /\ acall = [t \in Threads |-> NoRace]
    /\ awrites = <<>>

RaceFrame ==
    UNCHANGED <<nkeys, seqVars, lockVars, guardVars, analyzeVars, mergeVars, mutated, funVars>>

\* except Exception as e: raise Exception(...) (lines 92-93)
RaceRaise(t) ==
    acall' = [acall EXCEPT ![t].ret = Raised, ![t].pc = "done",
                           ![t].data = NoData, ![t].tree = "none"]

\* line 26: parse_repo_url
RaceCall(t, loc) ==
    /\ acall[t].pc = "idle"
    /\ LET p == ParseRepoUrl(loc)
       IN IF p.ok
          THEN acall' = [acall EXCEPT ![t].key = AnalysisKey(p.owner, p.repo),
                                      ![t].pc = "lookup"]
          ELSE RaceRaise(t)
    /\ UNCHANGED <<cacheVars, now, awrites>>
    /\ RaceFrame

\* lines 29-33: get_cached_analysis
RaceLookup(t) ==
    /\ acall[t].pc = "lookup"
    /\ LET r == CacheGet(Cur, acall[t].key, now)
       IN /\ Install(r.st)
          /\ IF Truthy(r.ret)
             THEN acall' = [acall EXCEPT ![t].ret = r.ret, ![t].pc = "done",
                                         ![t].seen = Len(awrites)]
             ELSE acall' = [acall EXCEPT ![t].missed = TRUE, ![t].pc = "fetch",
                                         ![t].seen = Len(awrites)]
    /\ UNCHANGED <<now, awrites>>
    /\ RaceFrame

\* lines 39-49: the eleven provider calls
RaceFetch(t, d) ==
    /\ acall[t].pc = "fetch"
    /\ acall' = [acall EXCEPT ![t].data = d, ![t].calls = @ + 11, ![t].pc = "deep"]
    /\ UNCHANGED <<cacheVars, now, awrites>>
    /\ RaceFrame

\* lines 52-64
RaceDeep(t, tree) ==
    /\ acall[t].pc = "deep"
    /\ IF DeepRaises(acall[t].data)
       THEN acall' = [acall EXCEPT ![t].calls = @ + 4, ![t].ret = Raised,
                                   ![t].pc = "done", ![t].data = NoData]
       ELSE acall' = [acall EXCEPT ![t].calls = @ + 4, ![t].tree = tree,
                                   ![t].pc = "assemble"]
    /\ UNCHANGED <<cacheVars, now, awrites>>
    /\ RaceFrame

\* lines 67-84
RaceAssemble(t) ==
    /\ acall[t].pc = "assemble"
    /\ IF AssembleRaises(acall[t].data)
       THEN RaceRaise(t)
       ELSE acall' = [acall EXCEPT
                        ![t].ret = Report(t, acall[t].data.commits, acall[t].tree),
                        ![t].pc = "store"]
    /\ UNCHANGED <<cacheVars, now, awrites>>
    /\ RaceFrame

\* Mutant of RaceStore: the report is written only if the key is absent.
RaceStoreIfAbsent(t) ==
    /\ acall[t].pc = "store"
    /\ IF acall[t].key \in DOMAIN cache
       THEN UNCHANGED cacheVars
       ELSE Install(CacheSet(Cur, acall[t].key, acall[t].ret, AnalysisTtl, now))
    /\ awrites' = Append(awrites, t)
    /\ acall' = [acall EXCEPT ![t].pc = "done", ![t].data = NoData, ![t].tree = "none"]
    /\ UNCHANGED now
    /\ RaceFrame

\* lines 87-90: cache_repository_analysis; return analysis
RaceStore(t) ==
    /\ acall[t].pc = "store"
    /\ Install(CacheSet(Cur, acall[t].key, acall[t].ret, AnalysisTtl, now))
    /\ awrites' = Append(awrites, t)
    /\ acall' = [acall EXCEPT ![t].pc = "done", ![t].data = NoData, ![t].tree = "none"]
    /\ UNCHANGED now
    /\ RaceFrame

\* A call takes as long as the network lets it: the clock may advance at any
\* point of it.
RaceTick ==
    /\ now < 2 * MaxTicks * TickSeconds
    /\ now' = now + 2 * TickSeconds
    /\ UNCHANGED <<cacheVars, nkeys, seqVars, lockVars, restVars>>

RaceNext ==
    \/ \E t \in Threads :
          \/ \E loc \in RaceLocators : RaceCall(t, loc)
          \/ RaceLookup(t)
          \/ \E d \in RaceData : RaceFetch(t, d)
          \/ \E tree \in TreeForms : RaceDeep(t, tree)
          \/ RaceAssemble(t)
          \/ RaceStore(t)
    \/ RaceTick

\* ------------------------------------------------ the merge of a section
\* _process_architecture_deep and _process_quality_metrics_deep: base is the
\* dict the base processor built, and the statements that follow assign the
\* deep values to its fields one after another.
\* A field holds a placeholder ("TBD - ..."), a value the base processor
\* computed, or a value computed from the output of a deep stage; degraded
\* says that stage had failed and handed over its default output.
FieldValue(kind, stage, degraded) == [kind |-> kind, stage |-> stage, degraded |-> degraded]
Absent == FieldValue("absent", "none", FALSE)
Placeholder == FieldValue("placeholder", "none", FALSE)
BaseValue == FieldValue("base", "none", FALSE)

\* analyze_file_tree: _default_tree_analysis() when the tree could not be
\* fetched, else the analysis of a tree without or with file extensions
MergeTrees == {"failed", "empty", "files"}
\* analyze_dependencies_detailed: the provider gave nothing, or the
\* repository has no package manager, or it has one
MergeDeps == {"failed", "none", "found"}

ArchitectureFields ==
    {"entry_points", "directory_structure", "core_dependencies",
     "dev_dependencies", "build_system", "deployment_pipeline",
     "architecture_pattern", "data_flow_analysis", "scalability_assessment",
     "performance_considerations", "primary_technologies"}
QualityFields ==
    {"test_coverage_percentage", "testing_framework", "linting_standards",
     "ci_cd_pipeline_status", "automation_scope", "security_vulnerabilities",
     "recent_workflow_results", "code_coverage", "documentation_quality",
     "branch_protection", "code_review_process"}
MergeFields == ArchitectureFields \cup QualityFields

\* _process_architecture (lines 142-149) and _process_quality_metrics
\* (lines 156-171): the dict base starts as
BaseDict(section) ==
    [f \in MergeFields |->
        IF section = "architecture"
        THEN CASE f \in {"directory_structure", "deployment_pipeline"} -> Placeholder
               [] f \in {"entry_points", "core_dependencies", "dev_dependencies",
                         "build_system"} -> BaseValue
               [] OTHER -> Absent
        ELSE CASE f \in {"test_coverage_percentage", "testing_framework",
                         "linting_standards", "security_vulnerabilities"} -> Placeholder
               [] f \in {"ci_cd_pipeline_status", "automation_scope",
                         "recent_workflow_results"} -> BaseValue
               [] OTHER -> Absent]

Stmt(field, stage, when) == [field |-> field, stage |-> stage, when |-> when]

\* The assignments to base, in the order of the source.  deep_quality is
\* computed from tree_analysis.
MergeStatements(section) ==
    IF section = "architecture"
    THEN << Stmt("architecture_pattern", "tree", "always"),
            Stmt("data_flow_analysis", "tree", "always"),
            Stmt("scalability_assessment", "tree", "always"),
            Stmt("performance_considerations", "deps", "always"),
            Stmt("directory_structure", "tree", "always"),
            Stmt("deployment_pipeline", "deps", "package_managers"),
            Stmt("primary_technologies", "tree", "file_types") >>
    ELSE << Stmt("testing_framework", "tree", "always"),
            Stmt("code_coverage", "tree", "always"),
            Stmt("linting_standards", "tree", "always"),
            Stmt("documentation_quality", "tree", "always"),
            Stmt("automation_scope", "tree", "always"),
            Stmt("branch_protection", "tree", "always"),
            Stmt("code_review_process", "tree", "always") >>

\* the if in front of an assignment
StmtRuns(s, tree, deps) ==
    CASE s.when = "package_managers" -> deps = "found"
      [] s.when = "file_types" -> tree = "files"
      [] OTHER -> TRUE

StageFailed(stage, tree, deps) ==
    IF stage = "tree" THEN tree = "failed" ELSE deps = "failed"

MergeStart ==
    /\ mpc = 0
    /\ msec = "none"
    /\ mtree = "none"
    /\ mdeps = "none"
    /\ mdict = [f \in MergeFields |-> Absent]

MergeFrame ==
    UNCHANGED <<cacheVars, now, nkeys, seqVars, lockVars, guardVars, analyzeVars, mutated, funVars, raceVars>>

\* base = self._process_architecture(...) / self._process_quality_metrics(...)
MergeBase(section, tree, deps) ==
    /\ mpc = 0 \/ mpc > Len(MergeStatements(msec))
    /\ msec' = section
    /\ mtree' = tree
    /\ mdeps' = deps
    /\ mdict' = BaseDict(section)
    /\ mpc' = 1
    /\ MergeFrame

\* the next assignment to base
MergeStep ==
    /\ mpc > 0
    /\ mpc <= Len(MergeStatements(msec))
    /\ LET s == MergeStatements(msec)[mpc]
       IN mdict' = IF StmtRuns(s, mtree, mdeps)
                   THEN [mdict EXCEPT ![s.field] =
                            FieldValue("deep", s.stage, StageFailed(s.stage, mtree, mdeps))]
                   ELSE mdict
    /\ mpc' = mpc + 1
    /\ UNCHANGED <<msec, mtree, mdeps>>
    /\ MergeFrame

MergeNext ==
    \/ \E section \in {"architecture", "quality"}, tree \in MergeTrees, deps \in MergeDeps :
          MergeBase(section, tree, deps)
    \/ MergeStep

\* ------------------------------------------------ the feature classifiers
\* A string is a sequence of tokens: word stems, "s", "/" and file names.
\* A token in upper case differs from its stem only in case.
Lower(tok) ==
    CASE tok = "Service" -> "service"
      [] tok = "API" -> "api"
      [] OTHER -> tok

\* str.lower()
LowerStr(str) == [i \in DOMAIN str |-> Lower(str[i])]

\* kw in str
In(kw, str) ==
    \E i \in 1 .. (Len(str) - Len(kw) + 1) : SubSeq(str, i, i + Len(kw) - 1) = kw

\* The blobs a repository tree may hold, by path.
FilePaths ==
    {<<"controller", "s", "/", "f">>, <<"model", "s", "/", "f">>,
     <<"view", "s", "/", "f">>, <<"service", "s", "/", "f">>,
     <<"a", "Service", "/", "f">>, <<"b", "service", "/", "f">>,
     <<"c", "service", "/", "f">>, <<"domain", "/", "f">>,
     <<"infrastructure", "/", "f">>, <<"src", "/", "component", "s", "/", "f">>,
     <<"API", "/", "f">>, <<"module", "s", "/", "f">>,
     <<"package", "s", "/", "x", "/", "x", "/", "f">>,
     <<"swagger", ".json">>, <<"docs", "/", "openapi", ".yaml">>,
     <<"package.json">>}

\* path.split("/"): the positions of the separators
Slashes(path) == {i \in DOMAIN path : path[i] = "/"}

\* len(parts) - 1
Depth(path) == Cardinality(Slashes(path))

LastSlash(path) == CHOOSE i \in Slashes(path) : \A j \in Slashes(path) : j <= i

\* "/".join(parts[:-1])
DirPath(path) == SubSeq(path, 1, LastSlash(path) - 1)

\* path.split("/")[-1]
Basename(path) ==
    IF Slashes(path) = {} THEN path
    ELSE SubSeq(path, LastSlash(path) + 1, Len(path))

\* lines 61-63: the file names that count as configuration files
ConfigBasenames ==
    {<<"package.json">>, <<"requirements.txt">>, <<"Gemfile">>, <<"Cargo.toml">>,
     <<"go.mod">>, <<"pom.xml">>, <<".env.example">>, <<"Dockerfile">>,
     <<"docker-compose.yml">>}

SetMax(S) == IF S = {} THEN 0 ELSE CHOOSE x \in S : \A y \in S : y <= x

DefaultTreeAnalysis ==
    [total_files |-> 0, total_dirs |-> 0, directory_structure |-> {},
     config_files |-> {}, max_depth |-> 0]

\* analyze_file_tree on a tree of the blobs `files` and `trees` directories;
\* of the analysis, the fields the classifiers read. directory_structure is
\* given by its keys.
AnalyzeFileTree(ok, files, trees) ==
    IF ~ok THEN DefaultTreeAnalysis
    ELSE [total_files |-> Cardinality(files),
          total_dirs |-> trees,
          directory_structure |-> {DirPath(p) : p \in {q \in files : Depth(q) > 0}},
          config_files |-> {p \in files : Basename(p) \in ConfigBasenames},
          max_depth |-> SetMax({Depth(p) : p \in files})]

AnyDir(dirs, kw) == \E d \in dirs : In(kw, LowerStr(d))

\* Mutant of DetectArchitecturePattern: the Microservices rule is tried
\* before the MVC rule.
DetectServicesFirst(tree_analysis) ==
    LET dirs == tree_analysis.directory_structure
    IN IF \/ AnyDir(dirs, <<"service", "s">>)
          \/ Cardinality({d \in dirs : In(<<"service">>, LowerStr(d))}) > ServiceDirs
       THEN "Microservices Architecture"
       ELSE IF /\ AnyDir(dirs, <<"controller">>)
               /\ AnyDir(dirs, <<"model">>)
               /\ AnyDir(dirs, <<"view">>)
       THEN "MVC (Model-View-Controller)"
       ELSE IF /\ AnyDir(dirs, <<"domain">>)
               /\ AnyDir(dirs, <<"infrastructure">>)
       THEN "Domain-Driven Design (DDD)"
       ELSE IF AnyDir(dirs, <<"component", "s">>)
       THEN "Component-Based Architecture"
       ELSE IF /\ tree_analysis.max_depth < MonolithicDepth
               /\ tree_analysis.total_dirs < MonolithicDirs
       THEN "Monolithic Architecture"
       ELSE IF \/ AnyDir(dirs, <<"module", "s">>)
               \/ AnyDir(dirs, <<"package", "s">>)
       THEN "Modular Architecture"
       ELSE "Standard Project Structure"

DetectArchitecturePattern(tree_analysis) ==
    LET dirs == tree_analysis.directory_structure
    IN IF /\ AnyDir(dirs, <<"controller">>)
          /\ AnyDir(dirs, <<"model">>)
          /\ AnyDir(dirs, <<"view">>)
       THEN "MVC (Model-View-Controller)"
       ELSE IF \/ AnyDir(dirs, <<"service", "s">>)
               \/ Cardinality({d \in dirs : In(<<"service">>, LowerStr(d))}) > ServiceDirs
       THEN "Microservices Architecture"
       ELSE IF /\ AnyDir(dirs, <<"domain">>)
               /\ AnyDir(dirs, <<"infrastructure">>)
       THEN "Domain-Driven Design (DDD)"
       ELSE IF \/ AnyDir(dirs, <<"component", "s">>)
               \/ \E d \in dirs : In(<<"src", "/", "component", "s">>, d)
       THEN "Component-Based Architecture"
       ELSE IF /\ AnyDir(dirs, <<"api">>)
               /\ \E f \in tree_analysis.config_files :
                     \/ In(<<"swagger">>, LowerStr(f))
                     \/ In(<<"openapi">>, LowerStr(f))
       THEN "API-First Architecture"
       ELSE IF /\ tree_analysis.max_depth < MonolithicDepth
               /\ tree_analysis.total_dirs < MonolithicDirs
       THEN "Monolithic Architecture"
       ELSE IF \/ AnyDir(dirs, <<"module", "s">>)
               \/ AnyDir(dirs, <<"package", "s">>)
       THEN "Modular Architecture"
       ELSE "Standard Project Structure"

\* The directories of a tree: one "tree" item for each.
AllDirs(files) == UNION {{SubSeq(p, 1, i - 1) : i \in Slashes(p)} : p \in files}

\* The trees handed to the extractor: up to MaxFiles blobs, their
\* directories, and either no other directory or MonolithicDirs more.
TreeInputs ==
    {[fn |-> "detect", done |-> FALSE,
      ok |-> ok, files |-> fs, trees |-> Cardinality(AllDirs(fs)) + more] :
        ok \in BOOLEAN, more \in {0, MonolithicDirs},
        fs \in {x \in SUBSET FilePaths : Cardinality(x) <= MaxFiles}}

NoResult == [label |-> "none", list |-> <<>>, score |-> 0]

FunStart ==
    /\ fcall = [fn |-> "none", done |-> FALSE]
    /\ fret = NoResult

FunFrame ==
    UNCHANGED <<cacheVars, now, nkeys, seqVars, lockVars, guardVars, analyzeVars,
                mergeVars, mutated, raceVars>>

\* repo_processor.py 60 and 303: the extracted tree is classified
DetectArchitecture ==
    /\ fcall.fn = "detect"
    /\ ~fcall.done
    /\ fcall' = [fcall EXCEPT !.done = TRUE]
    /\ fret' = [NoResult EXCEPT !.label =
                  DetectArchitecturePattern(
                      AnalyzeFileTree(fcall.ok, fcall.files, fcall.trees))]
    /\ FunFrame

\* repository_cache = RepositoryCache(...), no call made yet.
CacheStart ==
    /\ cache = CacheInit.cache
    /\ access_times = CacheInit.access_times
    /\ hits = CacheInit.hits
    /\ misses = CacheInit.misses
    /\ now = 0
    /\ nkeys = 0

SeqStart ==
    /\ last = NoLast
    /\ nops = 0
    /\ hist = HistInit

\* The cache after set(1, ..), .., set(n, ..) at time 0, key k with ttl ttls[k].
RECURSIVE Filled(_, _)
Filled(n, ttls) ==
    IF n = 0 THEN CacheInit
    ELSE CacheSet(Filled(n - 1, ttls), n, Value(n, 0), ttls[n], 0)

\* The threads start on a cache that earlier calls have filled with up to
\* max_size entries, the first of them short-lived.
LockInit ==
    /\ \E n \in 0 .. MaxSize :
          \E ttls \in {[k \in 1 .. n |-> IF k = 1 THEN TickSeconds ELSE NoTtl]} :
             LET c == Filled(n, ttls)
             IN /\ cache = c.cache
                /\ access_times = c.access_times
                /\ hits = c.hits
                /\ misses = c.misses
                /\ nkeys = n
                /\ ThreadsStart(c)
    /\ now = 0
    /\ SeqStart
    /\ GuardStart
    /\ AnalyzeStart
    /\ MergeStart
    /\ mutated = {}
    /\ FunStart
    /\ RaceStart

Init ==
    /\ CacheStart
    /\ SeqStart
    /\ LockStart
    /\ GuardStart
    /\ AnalyzeStart
    /\ MergeStart
    /\ mutated = {}
    /\ FunStart
    /\ RaceStart

Next ==
    \/ \E k \in Keys : Get(k)
    \/ \E k \in Keys, ttl \in TtlArgs : Set(k, ttl)
    \/ Clear
    \/ Tick

Spec == Init /\ [][Next]_vars

\* The cache API with callers that also store None.
NoneSpec == Init /\ [][Next \/ \E k \in Keys : SetNone(k)]_vars

\* The cache called by NumThreads threads at once.
LockSpec == LockInit /\ [][LockNext]_vars

\* Guarded calls made one after another on one OptimizedAnalyzer.
GuardSpec == Init /\ [][GuardNext]_vars

\* analyze_repository called again and again on the one global cache.
AnalyzeSpec == Init /\ [][AnalyzeNext]_vars

\* analyze_repository with callers that change the reports they were given.
AliasSpec == Init /\ [][AnalyzeNext \/ CallerMutates]_vars

\* The deep values merged into the architecture and quality sections.
MergeSpec == Init /\ [][MergeNext]_vars

\* The architecture detector applied to extracted trees.
\* A sentence of the indicator list; `count` is the number an f-string puts
\* in it, 0 for a fixed sentence.
Sentence(text, count) == [text |-> text, count |-> count]

NoDebtSentence == Sentence("No significant technical debt indicators detected", 0)

\* indicators.append(...) if the check holds
Append1(indicators, check, sentence) ==
    IF check THEN Append(indicators, sentence) ELSE indicators

\* lines 376-404: the eight checks in their order. Ratios are taken in whole
\* percents; a list feature is given by its length.
FiredIndicators(tree_analysis, deps, quality) ==
    LET i1 == Append1(<<>>, tree_analysis.max_depth > DebtDepth,
                Sentence("Deep nesting (>6 levels) indicates complex organization", 0))
        i2 == Append1(i1, tree_analysis.total_files > DebtFiles,
                Sentence("Large codebase (>500 files) may need modularization", 0))
        i3 == Append1(i2, deps.total_count > DebtDeps,
                Sentence("High dependency count increases maintenance burden",
                         deps.total_count))
        i4 == Append1(i3, deps.outdated_check > DebtFlexible,
                Sentence("Multiple dependencies using flexible versioning", 0))
        i5 == Append1(i4, quality.test_file_ratio < DebtTestRatio,
                Sentence("Low test coverage (<10% test files)", 0))
        i6 == Append1(i5, quality.ci_cd_tools = 0,
                Sentence("No CI/CD pipeline detected", 0))
        i7 == Append1(i6, quality.linting_config = 0,
                Sentence("No code linting configuration found", 0))
    IN Append1(i7, quality.documentation_coverage < DebtDocCoverage,
                Sentence("Minimal documentation coverage", 0))

\* Mutant of IdentifyTechDebtIndicators: no sentence is put in an empty list.
IndicatorsNoFallback(tree_analysis, deps, quality) ==
    FiredIndicators(tree_analysis, deps, quality)

IdentifyTechDebtIndicators(tree_analysis, deps, quality) ==
    LET indicators == FiredIndicators(tree_analysis, deps, quality)
    IN IF indicators = <<>> THEN <<NoDebtSentence>> ELSE indicators

Around(n) == {n - 1, n, n + 1}

\* The feature sets handed to the indicator list: every number at, just
\* under and just over the threshold it is compared with.
DebtInputs ==
    {[fn |-> "debt", done |-> FALSE,
      tree |-> [max_depth |-> md, total_files |-> tf],
      deps |-> [total_count |-> tc, outdated_check |-> oc],
      quality |-> [test_file_ratio |-> tr, ci_cd_tools |-> ci,
                   linting_config |-> lc, documentation_coverage |-> dc]] :
        md \in Around(DebtDepth), tf \in Around(DebtFiles), tc \in Around(DebtDeps),
        oc \in Around(DebtFlexible), tr \in Around(DebtTestRatio), ci \in {0, 1},
        lc \in {0, 1}, dc \in Around(DebtDocCoverage)}

\* repo_processor.py 395: the indicator list of the extracted features
IdentifyDebt ==
    /\ fcall.fn = "debt"
    /\ ~fcall.done
    /\ fcall' = [fcall EXCEPT !.done = TRUE]
    /\ fret' = [NoResult EXCEPT !.list =
                  IdentifyTechDebtIndicators(fcall.tree, fcall.deps, fcall.quality)]
    /\ FunFrame

\* The health score reads its lists only through the lengths of filtered
\* copies, so a list is given by those lengths: `total` issues of which
\* `open` have state "open" and `recent` were updated in the last 30 days;
\* `total` pull requests of which `merged` have a merged_at.
\* A quotient a / b is compared with t tenths as 10 * a is with t * b.
IssueHealth(issues) ==
    IF issues.total > 0
    THEN IF 10 * issues.open < LowRatio * issues.total THEN IssueBonus
         ELSE IF 10 * issues.open > HighRatio * issues.total THEN 0 - IssueBonus
         ELSE 0
    ELSE 0

PrHealth(prs) ==
    IF prs.total > 0
    THEN IF 10 * prs.merged > HighRatio * prs.total THEN PrBonus
         ELSE IF 10 * prs.merged < LowRatio * prs.total THEN 0 - PrBonus
         ELSE 0
    ELSE 0

ActivityHealth(issues) == IF issues.recent > RecentIssues THEN ActivityBonus ELSE 0

Min2(a, b) == IF a < b THEN a ELSE b
Max2(a, b) == IF a > b THEN a ELSE b

\* Mutant of CalculateHealthScore: no activity bonus.
HealthScoreNoActivity(issues, prs) ==
    Max2(0, Min2(100, BaseScore + IssueHealth(issues) + PrHealth(prs)))

CalculateHealthScore(issues, prs) ==
    Max2(0, Min2(100, BaseScore + IssueHealth(issues) + PrHealth(prs)
                        + ActivityHealth(issues)))

HealthInputs ==
    {c \in [fn : {"health"}, done : {FALSE},
            issues : [total : 0 .. MaxItems, open : 0 .. MaxItems,
                      recent : 0 .. MaxItems],
            prs : [total : 0 .. MaxItems, merged : 0 .. MaxItems]] :
        /\ c.issues.open <= c.issues.total
        /\ c.issues.recent <= c.issues.total
        /\ c.prs.merged <= c.prs.total}

\* enhanced_analyzer.py 246: the score of the fetched issues and pull requests
HealthScore ==
    /\ fcall.fn = "health"
    /\ ~fcall.done
    /\ fcall' = [fcall EXCEPT !.done = TRUE]
    /\ fret' = [NoResult EXCEPT !.score = CalculateHealthScore(fcall.issues, fcall.prs)]
    /\ FunFrame

\* The locators a caller may send: the text, or the path of the URL, split
\* at "/" into up to MaxSegments segments, empty ones included.
Segments == {"", "o", "r1", "x"}

ParseInputs ==
    {[fn |-> "parse", done |-> FALSE, loc |-> [http |-> h, parts |-> ps]] :
        h \in BOOLEAN,
        ps \in UNION {[1 .. n -> Segments] : n \in 1 .. MaxSegments}}

\* repo_processor.py 27-30: the locator is parsed and the cache key built
ParseLocator ==
    /\ fcall.fn = "parse"
    /\ ~fcall.done
    /\ fcall' = [fcall EXCEPT !.done = TRUE]
    /\ LET id == ParseRepoUrl(fcall.loc)
       IN fret' = IF id.ok
                  THEN [NoResult EXCEPT !.label = "returned",
                                        !.list = AnalysisKey(id.owner, id.repo)]
                  ELSE [NoResult EXCEPT !.label = "ValueError"]
    /\ FunFrame

\* ------------------------------------- merge and resolution times
\* A pull request or an issue, as far as analyze_commit_activity reads it:
\* whether merged_at / closed_at is set, whether the issue has a
\* "pull_request" entry, and the hours from created_at to merged_at /
\* closed_at.  created_at is always set by the provider.
Item(ended, linked, hours) == [ended |-> ended, linked |-> linked, hours |-> hours]

PrItems == {Item(TRUE, FALSE, 1), Item(TRUE, FALSE, 3), Item(FALSE, FALSE, 0)}

IssueItems == PrItems \cup {Item(TRUE, TRUE, 1), Item(TRUE, TRUE, 3)}

Run(n, item) == [i \in 1 .. n |-> item]

\* The lists handed in, most recent first: three runs of equal items, each
\* run empty, of one item, or as long as the window.
RunLists(items, window) ==
    {Run(a, x) \o Run(b, y) \o Run(c, z) :
        a \in {0, 1, window}, b \in {0, 1, window}, c \in {0, 1, window},
        x \in items, y \in items, z \in items}

\* list[:n]
Slice(list, n) == SubSeq(list, 1, IF Len(list) < n THEN Len(list) ELSE n)

RECURSIVE SumHours(_)
SumHours(list) == IF list = <<>> THEN 0 ELSE Head(list).hours + SumHours(Tail(list))

\* statistics.mean of a non-empty list, as the fraction sum / count;
\* "Unknown" (count 0) when no time was collected
MeanOf(times) == [sum |-> SumHours(times), count |-> Len(times)]

IsMerged(pr) == pr.ended

IsResolved(issue) == issue.ended /\ ~issue.linked

\* lines 339-352
AvgPrMergeTime(prs) == MeanOf(SelectSeq(Slice(prs, PrWindow), IsMerged))

\* lines 355-370
IssueResolutionTime(issues) == MeanOf(SelectSeq(Slice(issues, IssueWindow), IsResolved))

TimeInputs ==
    {[fn |-> "merge_time", done |-> FALSE, list |-> l] : l \in RunLists(PrItems, PrWindow)}
    \cup {[fn |-> "resolution_time", done |-> FALSE, list |-> l] :
             l \in RunLists(IssueItems, IssueWindow)}

\* analyze_commit_activity, the pull-request part
MergeTime ==
    /\ fcall.fn = "merge_time"
    /\ ~fcall.done
    /\ fcall' = [fcall EXCEPT !.done = TRUE]
    /\ fret' = [NoResult EXCEPT !.list = AvgPrMergeTime(fcall.list)]
    /\ FunFrame

\* analyze_commit_activity, the issue part
ResolutionTime ==
    /\ fcall.fn = "resolution_time"
    /\ ~fcall.done
    /\ fcall' = [fcall EXCEPT !.done = TRUE]
    /\ fret' = [NoResult EXCEPT !.list = IssueResolutionTime(fcall.list)]
    /\ FunFrame

\* ------------------------------------------------ POST /api/cache/clear
\* The endpoints are coroutines that never await inside the analysis, so an
\* invalidation runs between two requests.  last records it: the number of
\* requests started before it (key) and the number of the invalidation
\* (evicted).  One invalidation is explored in a behaviour.
InvalidateFrame ==
    /\ last' = [NoLast EXCEPT !.op = "invalidate", !.key = rn, !.time = now,
                              !.evicted = nops + 1]
    /\ nops' = nops + 1
    /\ UNCHANGED <<now, nkeys, hist, lockVars, restVars>>

\* Mutant of InvalidateRepositoryCache: only the named repository's entry goes.
InvalidateNamedOnly(owner, repo) ==
    /\ rpc \in {"idle", "done"}
    /\ nops = 0
    /\ Install([Cur EXCEPT !.cache = DictDel(@, AnalysisKey(owner, repo)),
                           !.access_times = ATDel(@, AnalysisKey(owner, repo))])
    /\ InvalidateFrame

\* invalidate_repository_cache(owner, repo): repository_cache.clear()
InvalidateRepositoryCache(owner, repo) ==
    /\ rpc \in {"idle", "done"}
    /\ nops = 0
    /\ Install(CacheClear(Cur))
    /\ InvalidateFrame

\* clear_cache calls invalidate_repository_cache("", ""); other callers may
\* name a repository.  The requests around it take the provider answers
\* that decide whether they return a report.
InvalidateNext ==
    \/ \E loc \in Locators : AnalyzeCall(loc)
    \/ Lookup
    \/ \E d \in RaceData : Fetch(d)
    \/ \E tree \in TreeForms : Deep(tree)
    \/ Assemble
    \/ Store
    \/ AnalyzeTick
    \/ \E id \in {<<"", "">>} \cup (Owners \X Repos) :
          InvalidateRepositoryCache(id[1], id[2])

\* ------------------------------------------------- the cache_result decorator
\* What a decorated function may return: a dict, with or without a truthy
\* "error" and a "partial" entry; a list; None.
DictResult(error, partial) == [kind |-> "dict", error |-> error, partial |-> partial]
ListResult == [kind |-> "list", error |-> FALSE, partial |-> FALSE]
FuncResults ==
    {DictResult(e, p) : e \in BOOLEAN, p \in BOOLEAN} \cup {ListResult, None}

\* isinstance(result, dict)
IsDict(result) == IF result = None THEN FALSE ELSE result.kind = "dict"

\* not isinstance(result, dict) or not result.get("error")
Cacheable(result) == ~IsDict(result) \/ ~result.error

\* wrapper, lines 117-135, called with the arguments that make `key`; `result`
\* is what func returns if it is run.
CachedCall(key, result, ttl) ==
    /\ nops < MaxOps
    /\ UseKey(key)
    /\ LET r == CacheGet(Cur, key, now)
       IN IF r.ret # None
          THEN /\ Install(r.st)
               /\ fcall' = [fn |-> "cached", done |-> TRUE, key |-> key, ran |-> FALSE]
               /\ fret' = [NoResult EXCEPT !.label = "hit", !.list = <<r.ret>>]
          ELSE /\ Install(IF Cacheable(result)
                          THEN CacheSet(r.st, key, result, ttl, now)
                          ELSE r.st)
               /\ fcall' = [fn |-> "cached", done |-> TRUE, key |-> key, ran |-> TRUE]
               /\ fret' = [NoResult EXCEPT !.label = "ran", !.list = <<result>>]
    /\ nops' = nops + 1
    /\ UNCHANGED <<now, last, hist, lockVars, guardVars, analyzeVars, mergeVars, mutated, raceVars>>

DecoratorNext ==
    \/ \E key \in Keys, result \in FuncResults, ttl \in {NoTtl, TickSeconds} :
          CachedCall(key, result, ttl)
    \/ Tick

\* ------------------------------------------- the two caches side by side
TtlFrame == UNCHANGED <<nkeys, seqVars, lockVars, analyzeVars, moreVars>>

\* OptimizedAnalyzer._set_cache: an extractor stores its result
IntermediateCached(i) ==
    /\ dcache' = SetCache(DirResult(i), now)
    /\ UNCHANGED <<cacheVars, now, gn, gpc, wpc, gfun, garg, gslot, gexc, gret,
                   gelapsed, wval, wraised>>
    /\ TtlFrame

\* Mutant of ReportCached: the report gets the ttl of the extractor cache.
ReportCachedShort(owner, repo) ==
    /\ Install(CacheSet(Cur, AnalysisKey(owner, repo), Report(1, "data", "files"),
                        CacheTtl, now))
    /\ UNCHANGED <<now, guardVars>>
    /\ TtlFrame

\* cache_repository_analysis
ReportCached(owner, repo) ==
    /\ Install(CacheSet(Cur, AnalysisKey(owner, repo), Report(1, "data", "files"),
                        AnalysisTtl, now))
    /\ UNCHANGED <<now, guardVars>>
    /\ TtlFrame

\* The clock advances by the ttl of the extractor cache, until a report
\* stored at the start has expired.
TtlTick ==
    /\ now < AnalysisTtl + CacheTtl
    /\ now' = now + CacheTtl
    /\ UNCHANGED <<cacheVars, guardVars>>
    /\ TtlFrame

TtlNext ==
    \/ \E i \in GuardCalls : IntermediateCached(i)
    \/ \E owner \in Owners, repo \in Repos : ReportCached(owner, repo)
    \/ TtlTick

\* A classifier about to be called with one of `inputs`.
FunInit(inputs) ==
    /\ CacheStart
    /\ SeqStart
    /\ LockStart
    /\ GuardStart
    /\ AnalyzeStart
    /\ MergeStart
    /\ mutated = {}
    /\ fcall \in inputs
    /\ fret = NoResult
    /\ RaceStart

RaceSpec == Init /\ [][RaceNext]_vars

DetectSpec == FunInit(TreeInputs) /\ [][DetectArchitecture]_vars

\* The indicator list computed from feature sets.
DebtSpec == FunInit(DebtInputs) /\ [][IdentifyDebt]_vars

\* The health score computed from issue and pull-request lists.
HealthSpec == FunInit(HealthInputs) /\ [][HealthScore]_vars

\* parse_repo_url and the cache key, on locators of every shape.
ParseSpec == FunInit(ParseInputs) /\ [][ParseLocator]_vars

\* Extractor results and reports cached as time passes.
TtlSpec == Init /\ [][TtlNext]_vars

\* Calls of a function wrapped by cache_result.
DecoratorSpec == Init /\ [][DecoratorNext]_vars

\* analyze_repository requests with cache invalidations between them.
InvalidateSpec == Init /\ [][InvalidateNext]_vars

\* The mean merge and resolution times of pull-request and issue lists.
TimeSpec == FunInit(TimeInputs) /\ [][MergeTime \/ ResolutionTime]_vars

\* ---------------------------------------------------------------- claims
\* This step is a call get(k).
GetStep(k) == nops' = nops + 1 /\ last'.op = "get" /\ last'.key = k

\* The ttl the claims take a set to have asked for: the argument, or the
\* default when none was passed.
AskedTtl(ttl) == IF ttl = NoTtl THEN DefaultTtl ELSE ttl

\* C4: for every ttl T passed to set, T = 0 included, a get of the entry (not
\* evicted or cleared since) finds it at every time before T has elapsed and
\* reports not-found at every time after T has elapsed; with no ttl passed T
\* is the default ttl.
C4_TtlAsPassed ==
    (last.op = "get" /\ hist.live[last.key].set) =>
        LET l == hist.live[last.key]
            T == AskedTtl(l.ttl)
        IN /\ (last.time < l.at + T => last.ret # None)
           /\ (last.time > l.at + T => last.ret = None)

\* C5 as stated: capacity+1 distinct keys inserted into an empty cache, with
\* any gets in between, cause exactly one eviction, of the entry with the
\* oldest access time.
C5_ExactlyOneEviction ==
    (hist.nsets = MaxSize + 1 /\ Cardinality(hist.sets) = MaxSize + 1) =>
        (hist.evictions = 1 /\ hist.evictedOldest)

\* C5 as amended: the same, provided no get in between found an entry expired
\* (such a get removes the entry, and the last insert then finds room).
C5_OneEvictionUnlessExpired ==
    (/\ hist.nsets = MaxSize + 1
     /\ Cardinality(hist.sets) = MaxSize + 1
     /\ hist.expiries = 0) =>
        (hist.evictions = 1 /\ hist.evictedOldest)

\* C5 witness: capacity+1 distinct keys were inserted with a get in between,
\* nothing expired, and the last insert evicted an entry.
C5_Witness ==
    /\ hist.nsets = MaxSize + 1
    /\ Cardinality(hist.sets) = MaxSize + 1
    /\ hist.expiries = 0
    /\ hist.gets > 0
    /\ last.op = "set"
    /\ last.evicted # 0
    /\ hist.evictions = 1

\* C6: get returns not-found when the key is absent or its expiry time has
\* passed, never the value of an expired entry, and removes an expired entry
\* from the value map and from the access-time map.
C6_GetExpired ==
    [][\A k \in Keys :
         (GetStep(k) /\ (k \notin DOMAIN cache \/ now >= cache[k].expires_at)) =>
             /\ last'.ret = None
             /\ k \notin DOMAIN cache'
             /\ k \notin ATKeys(access_times')
             /\ \A j \in Keys \ {k} :
                    (j \in DOMAIN cache <=> j \in DOMAIN cache')]_vars

\* C6 witness: a get found its entry expired and removed it.
C6_Witness ==
    /\ last.op = "get"
    /\ last.expired
    /\ last.ret = None
    /\ hist.live[last.key].set
    /\ last.key \notin DOMAIN cache

\* C7: every get increments exactly one counter: a hit increments hits and
\* refreshes the key's access time, a miss increments misses; so hits + misses
\* is the number of get calls since construction or the last clear.
C7_Counters ==
    /\ [](hits + misses = hist.gets)
    /\ [][\A k \in Keys : GetStep(k) =>
            IF last'.ret # None
            THEN /\ hits' = hits + 1
                 /\ misses' = misses
                 /\ ATGet(access_times', k) = now
            ELSE /\ misses' = misses + 1
                 /\ hits' = hits]_vars

\* C7 witness: hits and misses have both been counted, one miss on an expired
\* entry.
C7_Witness ==
    /\ hits > 0
    /\ misses > 0
    /\ last.op = "get"
    /\ last.expired

\* C8: get, set (with its eviction), clear and get_stats exclude one another
\* under the one lock: at most one thread is inside a method, whenever no
\* thread is inside one the cache and its counters are those of the calls run
\* one at a time in the order they took the lock, and every call about to
\* return returns what it returns in that serial run.
C8_Serializable ==
    /\ Cardinality({t \in Threads : InMethod(t)}) <= 1
    /\ (\A t \in Threads : ~InMethod(t)) => Cur = serial
    /\ \A t \in Threads :
          tpc[t] = "release" => tret[t] = sret[t]

\* C8 witness: a thread is halfway through an eviction (the entry is gone from
\* the value map, not yet from the access-time map) while another thread
\* waits for the lock to call get.
C8_Witness ==
    \E t, u \in Threads :
        /\ tpc[t] = "set80"
        /\ DOMAIN cache # ATKeys(access_times)
        /\ tpc[u] = "wait"
        /\ top[u].op = "get"


\* C9: a guarded call whose budget elapsed returned the timeout marker, and
\* the late completion of its work has no observable effect: no later call
\* returns a result that the timed-out work produced.
\* analyze_directory_structure caches its result when it completes, however
\* late, so the next call within cache_ttl returns it.
C9_LateResultDiscarded ==
    \A i, j \in GuardCalls :
        (/\ i < j
         /\ gpc[i] = "done"
         /\ gret[i] = TimeoutMarker
         /\ gpc[j] = "done")
        => gret[j].by # i

\* C10: a guarded call whose work finished within the budget (join returned
\* because the thread had finished) returns the work's own return value if
\* the work returned, and the error marker with partial = TRUE if it raised;
\* what the wrapper hands back is always a value.
C10_WithinBudget ==
    \A i \in GuardCalls :
        (gpc[i] = "done" /\ ~gelapsed[i]) =>
            /\ ~IsAlive(i)
            /\ wraised[i] => (gret[i] = ErrorMarker /\ gret[i].partial)
            /\ ~wraised[i] => (gret[i] = wval[i] /\ wval[i] # PyNone)

\* Two calls finished within the budget: the work of one raised and the
\* error marker came back, the work of the other returned its own value.
C10_Witness ==
    \E i, j \in GuardCalls :
        /\ gpc[i] = "done" /\ ~gelapsed[i] /\ wraised[i]
        /\ gret[i] = ErrorMarker
        /\ gpc[j] = "done" /\ ~gelapsed[j] /\ ~wraised[j]
        /\ gret[j] = wval[j]
        /\ gret[j].kind \in {"structure", "patterns"}

\* C1: analyze_repository raises only when the locator is malformed: a
\* request whose locator parse_repo_url accepts returns a report, whatever
\* the provider calls handed back.
\* The degraded marker is a dict where the processors expect a list (or a
\* dict of numbers), and the exception they raise on it is re-raised.
C1_RaisesOnlyOnMalformed ==
    (rpc = "done" /\ rret = Raised) => ~ParseRepoUrl(rloc).ok

\* C2: every report analyze_repository returns has the same sections and,
\* in every section, the same field keys: the report of a request and the
\* report of the request before it have equal key sets.
\* peak_development_hours, peak_development_days and top_contributors are
\* added only when the commits gave them, primary_technologies only when the
\* tree has files with an extension.
C2_FixedKeys ==
    (rpc = "done" /\ rret.kind = "report" /\ prev.ret.kind = "report") =>
        /\ rret.sections = prev.ret.sections
        /\ rret.activity = prev.ret.activity
        /\ rret.architecture = prev.ret.architecture

\* C3: a request for the repository of the request just before it, which
\* returned a report whose cache entry has not expired when the second
\* request looks it up, returns that same report and makes no provider call.
C3_SecondCallFromCache ==
    (/\ rpc = "done"
     /\ prev.ret.kind = "report"
     /\ rkey = prev.key
     /\ rlook < prev.expires)
    => (rret = prev.ret /\ rcalls = 0)

\* C3 witness: the first request built and cached a report, time passed, and
\* the second request for the same repository returned it without a provider
\* call.
C3_Witness ==
    /\ rpc = "done"
    /\ rn = 2
    /\ prev.ret.kind = "report"
    /\ prev.ret.by = 1
    /\ rkey = prev.key
    /\ rlook > 0
    /\ rlook < prev.expires
    /\ rret = prev.ret
    /\ rcalls = 0

\* C11: when the merge of a section is over, every field that a failed deep
\* stage would have filled still holds what the base processor put there
\* (its placeholder): the degraded output is detected and skipped.
\* The assignments do not look at the stage's outcome: analyze_file_tree
\* hands over its default analysis without a marker, and the values computed
\* from it replace the placeholders.
C11_DegradedKeepsPlaceholder ==
    (msec # "none" /\ mpc > Len(MergeStatements(msec))) =>
        \A i \in 1 .. Len(MergeStatements(msec)) :
            LET s == MergeStatements(msec)[i]
            IN (/\ BaseDict(msec)[s.field] = Placeholder
                /\ StageFailed(s.stage, mtree, mdeps))
               => mdict[s.field] = Placeholder

\* C12: a request whose locator parse_repo_url rejects raises at once: it is
\* never at the lookup, the fetch or the cache write, it makes no provider
\* call, and the step that starts it leaves the cache entries, the access
\* times and the hit and miss counters as they were.
C12_MalformedRejectedFirst ==
    /\ [](rn > 0 /\ ~ParseRepoUrl(rloc).ok =>
            rpc = "done" /\ rret = Raised /\ rcalls = 0)
    /\ [][(rn' = rn + 1 /\ ~ParseRepoUrl(rloc').ok) => UNCHANGED cacheVars]_vars

\* C12 witness: a malformed locator was rejected after an earlier request
\* had filled the cache and moved the counters.
C12_Witness ==
    /\ rpc = "done"
    /\ ~ParseRepoUrl(rloc).ok
    /\ rret = Raised
    /\ prev.ret.kind = "report"
    /\ prev.key \in DOMAIN cache
    /\ misses > 0

\* C13: the cache holds its own copy of a report: whatever the holders of
\* the returned report did to it, a request served from the cache returns
\* the report as it was built.
\* set keeps the object itself and get hands it out again, so a hit returns
\* the very object an earlier caller was given and has changed.
C13_CachedCopyIndependent ==
    [][(rpc = "lookup" /\ rpc' = "done") => rret'.by \notin mutated]_vars

\* C14: nothing but the report cache carries state from one request to
\* another.  Each request makes one guarded call of
\* analyze_directory_structure on the one OptimizedAnalyzer of the process,
\* so the structure a call returns was computed by the worker of that call.
\* OptimizedAnalyzer keeps _cache and _cache_times across requests, written
\* and read by the worker threads under no lock: a call returns the
\* structure an earlier call computed.
C14_OnlyCacheEngineShared ==
    \A j \in GuardCalls :
        (gpc[j] = "done" /\ gret[j].kind = "structure") => gret[j].by = j

\* C15: get tells presence from absence for every value that can be stored:
\* a get that found a live entry (the key is still in the cache after it)
\* did not return what a get on an absent key returns.
\* get has no found flag: it returns the stored value or None, and None can
\* be stored.
C15_AbsenceDistinguishable ==
    (last.op = "get" /\ last.key \in DOMAIN cache) => last.ret # None

\* The order of the stages of one request: from each stage the request goes
\* to the next one, or ends (a hit at the lookup, an exception in a stage).
StageOrder ==
    {<<"idle", "lookup">>, <<"done", "lookup">>, <<"idle", "done">>,
     <<"done", "done">>, <<"lookup", "fetch">>, <<"lookup", "done">>,
     <<"fetch", "deep">>, <<"deep", "assemble">>, <<"deep", "done">>,
     <<"assemble", "store">>, <<"assemble", "done">>, <<"store", "done">>}

RuleHolds(i, tree) ==
    LET dirs == tree.directory_structure
    IN CASE i = 1 -> /\ AnyDir(dirs, <<"controller">>)
                     /\ AnyDir(dirs, <<"model">>)
                     /\ AnyDir(dirs, <<"view">>)
         [] i = 2 -> \/ AnyDir(dirs, <<"service", "s">>)
                     \/ Cardinality({d \in dirs : In(<<"service">>, LowerStr(d))}) > 2
         [] i = 3 -> AnyDir(dirs, <<"domain">>) /\ AnyDir(dirs, <<"infrastructure">>)
         [] i = 4 -> AnyDir(dirs, <<"component", "s">>)
         [] i = 5 -> /\ AnyDir(dirs, <<"api">>)
                     /\ \E f \in tree.config_files :
                           \/ In(<<"swagger">>, LowerStr(f))
                           \/ In(<<"openapi">>, LowerStr(f))
         [] i = 6 -> tree.max_depth < 3 /\ tree.total_dirs < 10
         [] i = 7 -> AnyDir(dirs, <<"module", "s">>) \/ AnyDir(dirs, <<"package", "s">>)
         [] OTHER -> TRUE

RuleLabels ==
    <<"MVC (Model-View-Controller)", "Microservices Architecture",
      "Domain-Driven Design (DDD)", "Component-Based Architecture",
      "API-First Architecture", "Monolithic Architecture",
      "Modular Architecture", "Standard Project Structure">>

FirstRule(tree) ==
    CHOOSE i \in DOMAIN RuleLabels :
        /\ RuleHolds(i, tree)
        /\ \A j \in 1 .. (i - 1) : ~RuleHolds(j, tree)

DebtChecks(c) ==
    <<[fires |-> c.tree.max_depth > 6,
       text |-> "Deep nesting (>6 levels) indicates complex organization"],
      [fires |-> c.tree.total_files > 500,
       text |-> "Large codebase (>500 files) may need modularization"],
      [fires |-> c.deps.total_count > 50,
       text |-> "High dependency count increases maintenance burden"],
      [fires |-> c.deps.outdated_check > 5,
       text |-> "Multiple dependencies using flexible versioning"],
      [fires |-> c.quality.test_file_ratio < 10,
       text |-> "Low test coverage (<10% test files)"],
      [fires |-> c.quality.ci_cd_tools = 0,
       text |-> "No CI/CD pipeline detected"],
      [fires |-> c.quality.linting_config = 0,
       text |-> "No code linting configuration found"],
      [fires |-> c.quality.documentation_coverage < 5,
       text |-> "Minimal documentation coverage"]>>

Occurrences(list, text) == Cardinality({i \in DOMAIN list : list[i].text = text})

\* C18: the indicator list holds the sentence of a check once if the check
\* fires and not at all otherwise, holds no sentence but those and the
\* fallback, is the fallback sentence alone exactly when no check fires, and
\* is never empty.
C18_OneSentencePerFiringCheck ==
    (fcall.fn = "debt" /\ fcall.done) =>
        LET checks == DebtChecks(fcall)
            list == fret.list
        IN /\ \A i \in DOMAIN checks :
                 Occurrences(list, checks[i].text) = IF checks[i].fires THEN 1 ELSE 0
           /\ \A j \in DOMAIN list :
                 \/ list[j] = NoDebtSentence
                 \/ \E i \in DOMAIN checks : list[j].text = checks[i].text
           /\ (list = <<NoDebtSentence>>) <=> (\A i \in DOMAIN checks : ~checks[i].fires)
           /\ (\E j \in DOMAIN list : list[j] = NoDebtSentence) => Len(list) = 1
           /\ list # <<>>

\* C18 witness: the list of a feature set with max depth 7, 501 files and no
\* CI tool, no other check firing, holds the three sentences of those checks.
C18_Witness ==
    /\ fcall.fn = "debt"
    /\ fcall.done
    /\ fcall.tree = [max_depth |-> 7, total_files |-> 501]
    /\ fcall.quality.ci_cd_tools = 0
    /\ Len(fret.list) = 3
    /\ fret.list[3] = Sentence("No CI/CD pipeline detected", 0)

\* The score as the sum of its parts, ratios in percent.
ClaimedScore(issues, prs) ==
    LET a == IF issues.total > 0 /\ 100 * issues.open < 30 * issues.total THEN 20
             ELSE IF issues.total > 0 /\ 100 * issues.open > 70 * issues.total THEN -20
             ELSE 0
        b == IF prs.total > 0 /\ 100 * prs.merged > 70 * prs.total THEN 15
             ELSE IF prs.total > 0 /\ 100 * prs.merged < 30 * prs.total THEN -15
             ELSE 0
        c == IF issues.recent > 5 THEN 15 ELSE 0
        sum == 50 + a + b + c
    IN IF sum < 0 THEN 0 ELSE IF sum > 100 THEN 100 ELSE sum

\* C19: the health score is 50, plus 20 for an open-issue ratio under 30% or
\* minus 20 for one over 70%, plus 15 for a merged ratio over 70% or minus
\* 15 for one under 30%, plus 15 for more than 5 recently updated issues,
\* clamped to 0 .. 100; it always lies in 0 .. 100; ten closed issues and ten
\* merged pull requests with more than 5 recent issues score exactly 100.
C19_HealthScore ==
    (fcall.fn = "health" /\ fcall.done) =>
        /\ fret.score = ClaimedScore(fcall.issues, fcall.prs)
        /\ fret.score \in 0 .. 100
        /\ (/\ fcall.issues.total = 10 /\ fcall.issues.open = 0
            /\ fcall.issues.recent > 5
            /\ fcall.prs = [total |-> 10, merged |-> 10]) => fret.score = 100

\* C19 witness: ten closed issues, six of them recent, and ten merged pull
\* requests were scored 100.
C19_Witness ==
    /\ fcall.fn = "health"
    /\ fcall.done
    /\ fcall.issues = [total |-> 10, open |-> 0, recent |-> 6]
    /\ fcall.prs = [total |-> 10, merged |-> 10]
    /\ fret.score = 100

\* The two forms of a locator: 'owner/name', and a URL whose path starts
\* (after its leading slashes) with owner and name; both names are not empty.
OwnerNameForm(loc) ==
    ~loc.http /\ Len(loc.parts) = 2 /\ loc.parts[1] # "" /\ loc.parts[2] # ""

UrlForm(loc) ==
    /\ loc.http
    /\ LET p == StripLeft(loc.parts)
       IN Len(p) >= 2 /\ p[1] # "" /\ p[2] # ""

DenotedPair(loc) ==
    LET p == IF loc.http THEN StripLeft(loc.parts) ELSE loc.parts
    IN <<p[1], p[2]>>

\* C20: parse_repo_url returns for a locator of the URL form or of the
\* 'owner/name' form and raises for every other one; the cache entry a
\* locator addresses is keyed by the pair it denotes, so that two locators
\* denoting the same pair address the same entry.
C20_IdentityIsThePair ==
    (fcall.fn = "parse" /\ fcall.done) =>
        LET loc == fcall.loc
            wellformed == OwnerNameForm(loc) \/ UrlForm(loc)
        IN /\ (fret.label = "returned") <=> wellformed
           /\ wellformed =>
                 fret.list = <<"analysis", DenotedPair(loc)[1], DenotedPair(loc)[2]>>

\* C21: a cached report written at time t expires later than the extractor
\* result cached at or before t, and is not expired at any time at which
\* that result is still served.
C21_ReportOutlivesIntermediate ==
    \A k \in DOMAIN cache :
        (dcache.has /\ dcache.time <= cache[k].created_at) =>
            /\ cache[k].expires_at > dcache.time + CacheTtl
            /\ GetCached(dcache, now) # PyNone => ~Expired(cache[k], now)

\* C21 witness: an extractor result cached before a report is no longer
\* served, and the report is still valid.
C21_Witness ==
    \E k \in DOMAIN cache :
        /\ dcache.has
        /\ dcache.time <= cache[k].created_at
        /\ GetCached(dcache, now) = PyNone
        /\ ~Expired(cache[k], now)
        /\ now > cache[k].created_at

\* C22: the decorator never stores a result that carries an error marker or
\* a partial marker.
C22_NoMarkerStored ==
    \A k \in DOMAIN cache :
        IsDict(cache[k].value) => ~cache[k].value.error /\ ~cache[k].value.partial

\* C22, second half: the call after one that returned a result without a
\* marker, for the same arguments and before the entry expires, is served
\* from the cache.
C22_OthersServed ==
    [][(/\ fcall.fn = "cached"
        /\ fcall'.fn = "cached"
        /\ nops' = nops + 1
        /\ fcall'.key = fcall.key
        /\ fret.list[1] = None \/ ~(fret.list[1].error \/ fret.list[1].partial)
        /\ fcall.key \in DOMAIN cache => ~Expired(cache[fcall.key], now))
       => ~fcall'.ran]_vars

ClaimedMean(list, Qualifies(_)) == MeanOf(Slice(SelectSeq(list, Qualifies), 20))

SameMean(m, n) ==
    /\ (m.count = 0) <=> (n.count = 0)
    /\ m.sum * n.count = n.sum * m.count

\* C24: the mean merge time is the mean over the 20 most recent merged pull
\* requests, and the mean resolution time the mean over the 20 most recent
\* closed issues that are not PR-linked; items that do not qualify take no
\* place among the 20.
C24_TwentyQualifying ==
    /\ (fcall.fn = "merge_time" /\ fcall.done) =>
          SameMean(fret.list, ClaimedMean(fcall.list, IsMerged))
    /\ (fcall.fn = "resolution_time" /\ fcall.done) =>
          SameMean(fret.list, ClaimedMean(fcall.list, IsResolved))

\* C25: whenever no thread is inside a cache method the value map and the
\* access-time map have the same keys, and each del statement finds the key
\* it removes: the expired key in get (lines 52-53) and the oldest key in
\* _evict_oldest (lines 79-80).
C25_SameKeySets ==
    /\ lock = 0 => DOMAIN cache = ATKeys(access_times)
    /\ \A t \in Threads :
          /\ tpc[t] = "get52" => top[t].key \in DOMAIN cache
          /\ tpc[t] = "get53" => top[t].key \in ATKeys(access_times)
          /\ tpc[t] = "set79" => tloc[t].oldest \in DOMAIN cache
          /\ tpc[t] = "set80" => tloc[t].oldest \in ATKeys(access_times)

\* C25 witness: a thread is half way through an eviction while the other is
\* waiting for the lock; the two maps differ until it has finished.
C25_Witness ==
    \E t \in Threads, u \in Threads :
        /\ tpc[t] = "set80"
        /\ tpc[u] = "wait"
        /\ DOMAIN cache # ATKeys(access_times)

\* This step is a call set(k, ...).
SetStep(k) == nops' = nops + 1 /\ last'.op = "set" /\ last'.key = k

\* C26: after any sequence of get, set and clear calls the cache holds at most
\* max_size entries.
C26_AtMostMaxSize == Cardinality(DOMAIN cache) <= MaxSize

\* C26 witness: more sets than the capacity since the last clear, a get among
\* the calls, the last call a set that found the cache full and evicted, and
\* the cache full again.
C26_Witness ==
    /\ last.op = "set"
    /\ last.evicted # 0
    /\ hist.nsets > MaxSize
    /\ hist.gets > 0
    /\ Cardinality(DOMAIN cache) = MaxSize

\* C27: a set on a key that is present while the cache holds max_size entries
\* evicts the entry with the oldest access time, expired or not, before it
\* writes: when that entry is another key it is lost and max_size - 1 entries
\* remain; when it is the key itself the entry is written back.
C27_OverwriteEvicts ==
    [][\A k \in Keys :
          (SetStep(k) /\ k \in DOMAIN cache /\ Cardinality(DOMAIN cache) = MaxSize) =>
              LET oldest_key == OldestKey(access_times)
              IN /\ last'.evicted = oldest_key
                 /\ k \in DOMAIN cache'
                 /\ oldest_key # k =>
                        /\ oldest_key \notin DOMAIN cache'
                        /\ Cardinality(DOMAIN cache') = MaxSize - 1
                 /\ oldest_key = k => DOMAIN cache' = DOMAIN cache]_vars

\* C27 witness: a set overwrote a present key in a full cache and evicted
\* another, unexpired key although an expired entry was present; max_size - 1
\* entries remain.
C27_Witness ==
    /\ last.op = "set"
    /\ last.evicted \notin {0, last.key}
    /\ last.expired
    /\ Cardinality(DOMAIN cache) = MaxSize - 1

\* What the work of invocation i handed to its target: the error marker made
\* from the exception it raised, or its return value.
WorkOutcome(i) == IF wraised[i] THEN ErrorMarker ELSE wval[i]

\* C28: under every interleaving of the worker threads and the caller, a
\* guard invocation that has returned gave back the timeout marker, or else
\* its own work had finished and it gave back that work's outcome (the error
\* marker if the work raised, its return value otherwise), never the empty
\* slot; in particular an invocation whose wait ran out but whose work
\* finished before the liveness check gave back the work's outcome.  The
\* slot of an invocation is written by its own worker only.
C28_OneOfThreeOutcomes ==
    /\ \A i \in GuardCalls :
          gpc[i] = "done" =>
              /\ gret[i] # PyNone
              /\ gret[i] # TimeoutMarker =>
                    (wpc[i] = "dead" /\ gret[i] = WorkOutcome(i))
              /\ (gret[i] = TimeoutMarker) => gelapsed[i]
    /\ \A i \in GuardCalls :
          /\ gslot[i] \in {PyNone, wval[i]}
          /\ gslot[i] # PyNone => wpc[i] \in {"exit", "dead"}
          /\ gexc[i] => (wraised[i] /\ wpc[i] \in {"exit", "dead"})

\* C28 witness: the first invocation timed out and its worker went on to
\* write its own slot; the second invocation's wait ran out too, its work
\* finished before the liveness check, and it gave back its own work's
\* return value, not what is in the first invocation's slot.
C28_Witness ==
    \E i, j \in GuardCalls :
        /\ i < j
        /\ gpc[i] = "done" /\ gret[i] = TimeoutMarker
        /\ gslot[i] \notin {PyNone, gslot[j]}
        /\ gpc[j] = "done" /\ gelapsed[j]
        /\ gret[j] = wval[j] /\ gret[j].by = j

\* C29: a request that raises (malformed locator, or an exception in a
\* stage) writes nothing to the cache: the step that raises leaves the cache
\* as it is, no entry holds a report built by a request that raised, and the
\* next request for the same repository is not served from the cache what the
\* failed request built.
C29_FailedNotCached ==
    /\ [][(rret' = Raised /\ rret # Raised) =>
            (cache' = cache /\ access_times' = access_times)]_vars
    /\ [](\A k \in DOMAIN cache :
             /\ cache[k].value.kind = "report"
             /\ cache[k].value.sections = Sections
             /\ (rpc = "done" /\ rret = Raised) => cache[k].value.by # rn
             /\ prev.ret = Raised => cache[k].value.by # rn - 1)
    /\ []((rpc = "done" /\ rret # Raised /\ prev.ret = Raised) =>
             (rret.kind = "report" /\ rret.by # rn - 1))

\* C29 witness: a request fetched its data and raised while the sections
\* were assembled, and the next request for the same repository ran the
\* whole pipeline and returned a report of its own.
C29_Witness ==
    /\ prev.ret = Raised
    /\ prev.key = rkey
    /\ rkey # <<>>
    /\ rpc = "done"
    /\ rret.kind = "report"
    /\ rret.by = rn
    /\ rcalls = 15
    /\ rkey \in DOMAIN cache

\* The threads that have called analyze_repository for the repository of key.
Callers(key) == {t \in Threads : acall[t].pc # "idle" /\ acall[t].key = key}

\* The thread that wrote the entry of key last.
LastWriter(key) ==
    LET WroteKey(w) == acall[w].key = key
        writers == SelectSeq(awrites, WroteKey)
    IN writers[Len(writers)]

\* C30: two calls for the same repository whose lookups both found no report
\* each go through the whole pipeline and call the provider (a lookup that
\* finds nothing is always followed by the provider calls, whatever another
\* call is doing); when both have returned their reports the cache holds an
\* entry under the repository's key, and it is the report written last.
C30_BothRunLastWriteStays ==
    /\ \A t \in Threads :
          /\ (acall[t].missed /\ acall[t].pc \in {"deep", "assemble", "store"}) =>
                acall[t].calls >= 11
          /\ (acall[t].missed /\ acall[t].pc = "done") => acall[t].calls = 15
          /\ (acall[t].pc = "done" /\ ~acall[t].missed) => acall[t].calls = 0
    /\ \A t, u \in Threads :
          (/\ t # u
           /\ acall[t].key = acall[u].key
           /\ Callers(acall[t].key) = {t, u}
           /\ acall[t].missed /\ acall[u].missed
           /\ acall[t].pc = "done" /\ acall[u].pc = "done"
           /\ acall[t].ret.kind = "report" /\ acall[u].ret.kind = "report")
          => /\ acall[t].key \in DOMAIN cache
             /\ LastWriter(acall[t].key) \in {t, u}
             /\ cache[acall[t].key].value = acall[LastWriter(acall[t].key)].ret
             /\ cache[acall[t].key].value.by = LastWriter(acall[t].key)

\* C30 witness: two calls for the same repository both looked in the cache
\* before either had written, both ran the pipeline and wrote, and the entry
\* is the report of the one that wrote second.
C30_Witness ==
    \E t, u \in Threads :
        /\ t # u
        /\ acall[t].key = acall[u].key
        /\ acall[t].pc = "done" /\ acall[u].pc = "done"
        /\ acall[t].missed /\ acall[u].missed
        /\ acall[t].seen = 0 /\ acall[u].seen = 0
        /\ acall[t].calls = 15 /\ acall[u].calls = 15
        /\ awrites = <<t, u>>
        /\ cache[acall[t].key].value = acall[u].ret
        /\ acall[u].ret # acall[t].ret

====
